---- MODULE Spec2Model ----
(***************************************************************************)
(* Workflow engine of the orchestration service                            *)
(* (src/workflow_engine/engine.py) with the request handlers that create,  *)
(* start and delete workflows (src/api/workflow/workflow.py).              *)
(*                                                                         *)
(* One Execution row and its Step rows are modelled, together with the     *)
(* position of the background worker inside execute_from_id.  Every        *)
(* db.session.commit() of the engine ends an action, so each action is one *)
(* transition of the persisted rows.                                       *)
(*                                                                         *)
(* Strings that the engine computes with (context values, condition        *)
(* values) are sequences of one-character strings, so strip(), lower(),    *)
(* float() and the substring test are computed, not assumed.  Strings the  *)
(* engine only stores (ids, messages) are TLA+ strings.                    *)
(***************************************************************************)
EXTENDS Integers, Sequences, FiniteSets, TLC

(***************************************************************************)
(* Bounds of the model                                                     *)
(***************************************************************************)
\* longest list of outgoing edges enumerated for the gateway node
MaxGwEdges == 2
\* Step rows after which the model stops following a looping graph
MaxSteps == 5
\* calls of execute_from_id on the one Execution
MaxCalls == 2
\* last value of the wall clock
MaxClock == 2
\* requests the scheduling handlers answer
MaxRequests == 3
\* heartbeats sent on one stream connection
MaxHeartbeats == 1
\* failed polls of one stream connection, where nothing else limits them
MaxErrors == 9

(***************************************************************************)
(* Python string operations on sequences of characters                     *)
(***************************************************************************)
LowerLetters ==
  <<"a", "b", "c", "d", "e", "f", "g", "h", "i", "j", "k", "l", "m",
    "n", "o", "p", "q", "r", "s", "t", "u", "v", "w", "x", "y", "z">>

UpperLetters ==
  <<"A", "B", "C", "D", "E", "F", "G", "H", "I", "J", "K", "L", "M",
    "N", "O", "P", "Q", "R", "S", "T", "U", "V", "W", "X", "Y", "Z">>

\* str.lower() on one character
LowerChar(c) ==
  IF \E i \in 1..26 : UpperLetters[i] = c
  THEN LowerLetters[CHOOSE i \in 1..26 : UpperLetters[i] = c]
  ELSE c

\* str.upper() on one character
UpperChar(c) ==
  IF \E i \in 1..26 : LowerLetters[i] = c
  THEN UpperLetters[CHOOSE i \in 1..26 : LowerLetters[i] = c]
  ELSE c

\* str.upper()
Upper(s) == [i \in 1..Len(s) |-> UpperChar(s[i])]

\* str.rstrip(ch) for a single character ch
RECURSIVE RStripChar(_, _)
RStripChar(s, ch) ==
  IF s # <<>> /\ s[Len(s)] = ch
  THEN RStripChar(SubSeq(s, 1, Len(s) - 1), ch)
  ELSE s

\* str.replace(ch, '') for a single character ch
RECURSIVE Remove(_, _)
Remove(s, ch) ==
  IF s = <<>> THEN <<>>
  ELSE IF Head(s) = ch THEN Remove(Tail(s), ch)
  ELSE <<Head(s)>> \o Remove(Tail(s), ch)

\* str.lower()
Lower(s) == [i \in 1..Len(s) |-> LowerChar(s[i])]

RECURSIVE LStrip(_)
LStrip(s) == IF s # <<>> /\ Head(s) = " " THEN LStrip(Tail(s)) ELSE s

RECURSIVE RStrip(_)
RStrip(s) ==
  IF s # <<>> /\ s[Len(s)] = " " THEN RStrip(SubSeq(s, 1, Len(s) - 1)) ELSE s

\* str.strip()
Strip(s) == LStrip(RStrip(s))

Digits == {"0", "1", "2", "3", "4", "5", "6", "7", "8", "9"}

DigitVal(c) ==
  CASE c = "0" -> 0 [] c = "1" -> 1 [] c = "2" -> 2 [] c = "3" -> 3
    [] c = "4" -> 4 [] c = "5" -> 5 [] c = "6" -> 6 [] c = "7" -> 7
    [] c = "8" -> 8 [] OTHER -> 9

\* float(s) raises ValueError unless s, stripped, is a number; the strings of
\* this model are digit strings or contain letters
FloatOk(s) ==
  /\ Strip(s) # <<>>
  /\ \A i \in 1..Len(Strip(s)) : Strip(s)[i] \in Digits

RECURSIVE DecVal(_)
DecVal(s) ==
  IF s = <<>> THEN 0
  ELSE 10 * DecVal(SubSeq(s, 1, Len(s) - 1)) + DigitVal(s[Len(s)])

\* float(s) when FloatOk(s)
Float(s) == DecVal(Strip(s))

\* b in a
IsSubstring(b, a) ==
  \E i \in 0..Len(a) : i + Len(b) <= Len(a) /\ SubSeq(a, i + 1, i + Len(b)) = b

(***************************************************************************)
(* Values, mappings                                                        *)
(***************************************************************************)
vEmpty == <<>>
vOk == <<"o", "k">>
vOkPadded == <<" ", "O", "K">>
v5 == <<"5">>
v10 == <<"1", "0">>
vAbc == <<"a", "b", "c">>

\* the value a mapping gives a key it does not hold (dict.get(key) is None)
ABSENT == <<"None">>

Keys == {"x", "status"}

\* the empty dict
EmptyMap == [k \in Keys |-> ABSENT]

MapKeys(m) == {k \in Keys : m[k] # ABSENT}

\* context_update that merges nothing
context_update_skipped(a, b) == a

\* dict.update: keys of b overwrite keys of a
context_update(a, b) == [k \in Keys |-> IF b[k] # ABSENT THEN b[k] ELSE a[k]]

Map1(k, v) == [EmptyMap EXCEPT ![k] = v]

Map2(k1, v1, k2, v2) == [EmptyMap EXCEPT ![k1] = v1, ![k2] = v2]

(***************************************************************************)
(* Catalogs read by the engine                                             *)
(***************************************************************************)
\* DefProcessNodeType rows: shape_name -> behavior; "" when there is no row
NodeTypeBehavior(shape_name) ==
  CASE shape_name = "Start" -> "EVENT"
    [] shape_name = "Stop" -> "EVENT"
    [] shape_name = "Decision" -> "GATEWAY"
    [] shape_name = "Task" -> "TASK"
    [] OTHER -> ""

\* DefAsyncTask rows: task_name -> executor; "" when there is no row
TaskExecutor(task_name) ==
  CASE task_name = "echo" -> "python"
    [] task_name = "load" -> "executors.bash.execute"
    [] task_name = "legacy" -> "ruby"
    [] OTHER -> ""

TaskNames == {"echo", "load", "legacy"}

\* keys of the EXECUTORS registry
EXECUTORS ==
  {"executors.python.execute", "executors.bash.execute",
   "executors.stored_procedure.execute", "executors.stored_function.execute",
   "executors.http.execute",
   "python", "bash", "stored_procedure", "stored_function", "http"}

\* keys of SAFE_OPERATORS
SAFE_OPERATORS ==
  {"==", "!=", ">", ">=", "<", "<=", "contains", "not_contains",
   "is_empty", "is_not_empty"}

\* SAFE_OPERATORS[operator](a, b), with the ValueError of float() caught by
\* _evaluate_condition and turned into False
ApplyOperator(operator, a, b) ==
  CASE operator = "==" -> Lower(Strip(a)) = Lower(Strip(b))
    [] operator = "!=" -> Lower(Strip(a)) # Lower(Strip(b))
    [] operator = ">" -> FloatOk(a) /\ FloatOk(b) /\ Float(a) > Float(b)
    [] operator = ">=" -> FloatOk(a) /\ FloatOk(b) /\ Float(a) >= Float(b)
    [] operator = "<" -> FloatOk(a) /\ FloatOk(b) /\ Float(a) < Float(b)
    [] operator = "<=" -> FloatOk(a) /\ FloatOk(b) /\ Float(a) <= Float(b)
    [] operator = "contains" -> IsSubstring(Lower(b), Lower(a))
    [] operator = "not_contains" -> ~IsSubstring(Lower(b), Lower(a))
    [] operator = "is_empty" -> a = <<>>
    [] operator = "is_not_empty" -> a # <<>>
    [] OTHER -> FALSE

(***************************************************************************)
(* Process structures                                                      *)
(***************************************************************************)
Attr(name, value) == [attribute_name |-> name, attribute_value |-> value]

Node(id, type, step_function, attributes) ==
  [id |-> id, type |-> type, step_function |-> step_function,
   attributes |-> attributes]

\* an edge without data.condition, or with an empty one
NoCondition ==
  [empty |-> TRUE, is_default |-> FALSE, field |-> "", operator |-> "",
   value |-> <<>>]

Condition(field, operator, value) ==
  [empty |-> FALSE, is_default |-> FALSE, field |-> field,
   operator |-> operator, value |-> value]

DefaultCondition ==
  [empty |-> FALSE, is_default |-> TRUE, field |-> "", operator |-> "",
   value |-> <<>>]

Edge(source, target, condition) ==
  [source |-> source, target |-> target, condition |-> condition]

Flow(source, target) == Edge(source, target, NoCondition)

nStart == Node("S", "Start", "", <<>>)
nA == Node("A", "Task", "echo", <<Attr("x", v10)>>)
nB == Node("B", "Task", "load", <<>>)
nG == Node("G", "Decision", "", <<>>)
nT1 == Node("T1", "Task", "echo", <<Attr("status", vAbc), Attr("status", vEmpty)>>)
nT2 == Node("T2", "Custom", "", <<>>)
nStop == Node("E", "Stop", "", <<>>)
nGone == Node("M", "Task", "retired", <<>>)
nLegacy == Node("U", "Task", "legacy", <<>>)

AllNodes == <<nStart, nA, nB, nG, nT1, nT2, nStop, nGone, nLegacy>>

\* the same nodes without a Start node
NodesWithoutStart == <<nA, nB, nStop>>

\* edges a gateway may carry; "Z" is the id of no node
GatewayEdgeChoices ==
  {Edge("G", "T1", Condition("status", "==", vOk)),
   Edge("G", "T2", Condition("x", ">", v5)),
   Edge("G", "T2", DefaultCondition),
   Edge("G", "Z", NoCondition)}

RECURSIVE SeqsUpTo(_, _)
SeqsUpTo(S, n) ==
  IF n = 0 THEN {<<>>}
  ELSE LET shorter == SeqsUpTo(S, n - 1)
       IN shorter \cup {Append(q, e) : q \in shorter, e \in S}

GatewayStructures ==
  {[nodes |-> AllNodes,
    edges |-> <<Flow("S", "G")>> \o gw
              \o <<Flow("T1", "E"), Flow("T2", "E")>>] :
     gw \in SeqsUpTo(GatewayEdgeChoices, MaxGwEdges)}

LinearStructures ==
  {[nodes |-> AllNodes,
    edges |-> <<Flow("S", "A"), Flow("A", "B"), Flow("B", "E")>>],
   [nodes |-> AllNodes,
    edges |-> <<Flow("S", "A"), Flow("A", "T2")>>],
   [nodes |-> AllNodes,
    edges |-> <<Flow("S", "A"), Flow("A", "Z"), Flow("A", "B")>>],
   [nodes |-> AllNodes,
    edges |-> <<Flow("S", "B"), Flow("B", "Z")>>],
   [nodes |-> AllNodes,
    edges |-> <<Flow("S", "M"), Flow("M", "E")>>],
   [nodes |-> AllNodes,
    edges |-> <<Flow("S", "U"), Flow("U", "E")>>],
   [nodes |-> AllNodes,
    edges |-> <<Flow("S", "T2"), Flow("T2", "T1"), Flow("T1", "E"),
                Flow("E", "A")>>],
   [nodes |-> AllNodes,
    edges |-> <<Flow("S", "B"), Flow("B", "A"), Flow("A", "B")>>],
   [nodes |-> NodesWithoutStart,
    edges |-> <<Flow("A", "B"), Flow("B", "E")>>]}

Structures == LinearStructures \cup GatewayStructures

\* contexts a run request carries
InputContexts ==
  {EmptyMap, Map1("x", v10), Map2("status", vOkPadded, "x", v10)}

(***************************************************************************)
(* WorkflowEngine: the indexes built by _parse and the pure helpers        *)
(***************************************************************************)
\* Python None in a field that otherwise holds a message
None == "None"

\* the result of a dict lookup that finds no node
NoNode == Node("", "", "", <<>>)

Min(S) == CHOOSE m \in S : \A n \in S : m <= n

Max(S) == CHOOSE m \in S : \A n \in S : m >= n

\* _parse, self._nodes: the keys of {n['id']: n for n in nodes}
NodeIds(structure) ==
  {structure.nodes[i].id : i \in 1..Len(structure.nodes)}

\* self._nodes.get(id): a later node of the same id replaces an earlier one
nodes_get(structure, id) ==
  IF id \in NodeIds(structure)
  THEN structure.nodes[Max({i \in 1..Len(structure.nodes) :
                              structure.nodes[i].id = id})]
  ELSE NoNode

\* _parse, self._edges_by_source.get(id, []): the edges of that source in
\* declaration order
edges_by_source(structure, id) ==
  LET FromId(e) == e.source = id
  IN SelectSeq(structure.edges, FromId)

\* _find_start: the first value of self._nodes whose type is 'Start'; a dict
\* keeps a key at the position of its first insertion
find_start(structure) ==
  LET firsts == {i \in 1..Len(structure.nodes) :
                   /\ \A j \in 1..(i - 1) :
                        structure.nodes[j].id # structure.nodes[i].id
                   /\ nodes_get(structure, structure.nodes[i].id).type = "Start"}
  IN IF firsts = {} THEN NoNode
     ELSE nodes_get(structure, structure.nodes[Min(firsts)].id)

\* _get_next_nodes: the existing targets of the outgoing edges, in order
get_next_nodes(structure, node_id) ==
  LET TargetExists(e) == nodes_get(structure, e.target) # NoNode
      found == SelectSeq(edges_by_source(structure, node_id), TargetExists)
  IN [i \in 1..Len(found) |-> nodes_get(structure, found[i].target)]

\* _execute_step, the loop over predefined_attributes: each attribute is
\* written into the copy, a later one over an earlier one
RECURSIVE apply_attributes(_, _)
apply_attributes(attributes, step_context) ==
  IF attributes = <<>> THEN step_context
  ELSE apply_attributes(Tail(attributes),
         [step_context EXCEPT ![Head(attributes).attribute_name] =
                                 Head(attributes).attribute_value])

\* _execute_step: step_context = context.copy() with the attributes merged
step_context(node, context) == apply_attributes(node.attributes, context)

\* what an executor may do when applied: raise, or return an output that is
\* a dict with optional 'result' and 'error', or something that is no dict
Outcome(raises, message, result_kind, result, error) ==
  [raises |-> raises, message |-> message, result_kind |-> result_kind,
   result |-> result, error |-> error]

ExecutorOutcomes ==
  {Outcome(FALSE, "", "dict", Map1("x", v5), ""),
   Outcome(FALSE, "", "none", EmptyMap, None),
   Outcome(FALSE, "", "dict", Map1("x", vAbc), "boom"),
   Outcome(TRUE, "kaboom", "none", EmptyMap, None)}

\* the dict _execute_step returns; invoked and kwargs record the call of
\* executor.apply, result_kind tells a dict result from None and from others
StepResult(status, node_id, error, result_kind, result, invoked, kwargs) ==
  [status |-> status, node_id |-> node_id, error |-> error,
   result_kind |-> result_kind, result |-> result,
   invoked |-> invoked, kwargs |-> kwargs]

\* the behavior _execute_step dispatches on: TASK when the shape is unknown
behavior_of(node) ==
  IF NodeTypeBehavior(node.type) = "" THEN "TASK"
  ELSE NodeTypeBehavior(node.type)

\* executor_result that lets a populated result win over the error
executor_result_result_wins(node, kwargs, outcome) ==
  IF outcome.raises
  THEN StepResult("failed", node.id, outcome.message, "none", EmptyMap,
                  TRUE, kwargs)
  ELSE IF outcome.error \notin {None, ""} /\ outcome.result_kind = "none"
  THEN StepResult("failed", node.id, outcome.error, "none", EmptyMap,
                  TRUE, kwargs)
  ELSE StepResult("completed", node.id, None, outcome.result_kind,
                  outcome.result, TRUE, kwargs)

\* _execute_step, lines 162-209: the executor is applied and its outcome is
\* turned into the step's result
executor_result(node, kwargs, outcome) ==
  IF outcome.raises
  THEN StepResult("failed", node.id, outcome.message, "none", EmptyMap,
                  TRUE, kwargs)
  ELSE IF outcome.error \notin {None, ""}
  THEN StepResult("failed", node.id, outcome.error, "none", EmptyMap,
                  TRUE, kwargs)
  ELSE StepResult("completed", node.id, None, outcome.result_kind,
                  outcome.result, TRUE, kwargs)

\* _execute_step
execute_step(node, context, outcome) ==
  IF behavior_of(node) \in {"EVENT", "GATEWAY"}
  THEN StepResult("passed", node.id, None, "none", EmptyMap, FALSE, EmptyMap)
  ELSE IF node.step_function = ""
  THEN StepResult("skipped", node.id, None, "none", EmptyMap, FALSE, EmptyMap)
  ELSE IF TaskExecutor(node.step_function) = ""
  THEN StepResult("failed", node.id, "Task not found", "none", EmptyMap,
                  FALSE, EmptyMap)
  ELSE IF TaskExecutor(node.step_function) \notin EXECUTORS
  THEN StepResult("failed", node.id, "Unknown executor", "none", EmptyMap,
                  FALSE, EmptyMap)
  ELSE executor_result(node, step_context(node, context), outcome)

\* context_after_step when the attributes are written into the context itself
context_after_step_shared(node, context) == step_context(node, context)

\* _execute_step leaves the caller's context as it was: the attributes went
\* into a copy (line 119)
context_after_step(node, context) == context

\* _evaluate_condition
evaluate_condition(edge, context) ==
  LET condition == edge.condition
      looked_up == IF condition.field \in Keys THEN context[condition.field]
                   ELSE ABSENT
      field_val == IF looked_up = ABSENT THEN <<>> ELSE looked_up
  IN IF condition.empty \/ condition.is_default THEN FALSE
     ELSE IF condition.operator \notin SAFE_OPERATORS THEN FALSE
     ELSE ApplyOperator(condition.operator, field_val, condition.value)

\* what _evaluate_decision does: return a target id or raise
Decision(raised, target) == [raised |-> raised, target |-> target]

\* decision_loop that takes the default edge as soon as it meets it
RECURSIVE decision_loop_default_first(_, _, _, _)
decision_loop_default_first(edges, i, default_edge, context) ==
  IF i > Len(edges)
  THEN IF edges # <<>> THEN Decision(FALSE, edges[1].target)
       ELSE Decision(TRUE, "")
  ELSE IF edges[i].condition.is_default
  THEN Decision(FALSE, edges[i].target)
  ELSE IF evaluate_condition(edges[i], context)
  THEN Decision(FALSE, edges[i].target)
  ELSE decision_loop_default_first(edges, i + 1, default_edge, context)

\* _evaluate_decision, the loop from edge i on; default_edge is the index of
\* the edge held in default_edge, 0 for None
RECURSIVE decision_loop(_, _, _, _)
decision_loop(edges, i, default_edge, context) ==
  IF i > Len(edges)
  THEN IF default_edge # 0 THEN Decision(FALSE, edges[default_edge].target)
       ELSE IF edges # <<>> THEN Decision(FALSE, edges[1].target)
       ELSE Decision(TRUE, "")
  ELSE IF edges[i].condition.is_default
  THEN decision_loop(edges, i + 1, i, context)
  ELSE IF evaluate_condition(edges[i], context)
  THEN Decision(FALSE, edges[i].target)
  ELSE decision_loop(edges, i + 1, default_edge, context)

\* _evaluate_decision
evaluate_decision(structure, node, context) ==
  decision_loop(edges_by_source(structure, node.id), 1, 0, context)

(***************************************************************************)
(* State                                                                   *)
(***************************************************************************)
VARIABLES
  graph,          \* the process_structure the client works with
  process_stored, \* whether DefProcess row 1, which holds graph, exists
  execution,      \* the DefProcessExecution row; id 0 before it is created
  steps,          \* the DefProcessExecutionStep rows in insertion order
  pc,             \* position of the worker inside execute_from_id
  structure,      \* execute_from_id: structure_to_use
  current_nodes,  \* execute_from_id: the frontier
  node,           \* execute_from_id: the node being visited
  step_record,    \* execute_from_id: index in steps of the current step row
  context,        \* execute_from_id: the running context
  result,         \* execute_from_id: what _execute_step returned
  now,            \* the wall clock read by datetime.utcnow()
  calls,          \* number of execute_from_id calls made so far
  exit,           \* how the last execute_from_id call ended: "returned",
                  \* "raised", or "not_found" when it found no Execution row
  raised,         \* message of the last exception that reached a caller
  hist            \* history: for each step row, the visit that produced it

\* the state of the workflow engine and of its callers
engine_vars ==
  <<graph, process_stored, execution, steps, pc, structure, current_nodes,
    node, step_record, context, result, now, calls, exit, raised, hist>>

VARIABLES
  task,           \* the DefAsyncTask row of the task: "active", "cancelled"
                  \* (cancelled_yn = 'Y') or "missing"
  schedules,      \* the DefAsyncTaskScheduleNew rows in insertion order
  store,          \* the recurring store: schedule name -> entry or NoEntry
  adhoc,          \* the task names dispatched through the ad-hoc path
  response,       \* the last response of a scheduling handler
  requests        \* number of requests the scheduler has answered

\* the state of the task scheduler
sched_vars == <<task, schedules, store, adhoc, response, requests>>

VARIABLES
  payload,        \* the (schedule_type, schedule) pair being translated
  translated      \* for each handler, its translation of payload

\* the state of the translation of one payload
translate_vars == <<payload, translated>>

VARIABLES
  stream_pc,          \* position of generate(): "none" before the request,
                      \* "top" at the head of the loop, "read" between its
                      \* two queries, "closed" after it has ended
  stream_id,          \* generate: execution_id
  current_status,     \* generate: execution.execution_status as last read
  last_step_states,   \* generate: step id -> status last emitted
  event_counter,      \* generate: event_counter
  consecutive_errors, \* generate: consecutive_errors
  slept,              \* whether generate() has slept since it started
  hour_passed,        \* whether more than max_wait_seconds have passed since
                      \* generate() started
  session,            \* the db.session of generate(): "none", "open" or
                      \* "closed"
  events,             \* the events sent on the connection, in order
  connected_at        \* history: number of Step rows when generate() began

\* the state of one stream connection
stream_vars ==
  <<stream_pc, stream_id, current_status, last_step_states, event_counter,
    consecutive_errors, slept, hour_passed, session, events, connected_at>>

VARIABLES
  analysis,       \* the graph of a required_params request
  required,       \* the response of get_required_params to it
  workers,        \* position of the worker of a Cancel and of a Reschedule
                  \* request that run at the same time
  dynamic,        \* process_structure of the body of a run_dynamic request
  dynamic_status  \* HTTP status of the answer to it; 0 before the answer

\* the state of the required-parameter analysis
params_vars == <<analysis, required>>

\* the state of the concurrent scheduling workers and of run_dynamic
worker_vars == <<workers, dynamic, dynamic_status>>

\* what the workflow engine never touches
other_vars ==
  <<sched_vars, translate_vars, stream_vars, params_vars, worker_vars>>

\* what the task scheduler never touches
outside_sched ==
  <<engine_vars, translate_vars, stream_vars, params_vars, worker_vars>>

vars ==
  <<engine_vars, sched_vars, translate_vars, stream_vars, params_vars,
    worker_vars>>

\* NULL in a date column
NoDate == 0

\* None as a structure
NoStructure == [nodes |-> <<>>, edges |-> <<>>]

\* a NULL output_data is <<>>, a stored mapping m is <<m>>
NoOutput == <<>>

NoExecution ==
  [id |-> 0, process_id |-> 0, execution_status |-> "", input_data |-> EmptyMap,
   output_data |-> NoOutput, execution_start_date |-> NoDate,
   execution_end_date |-> NoDate, error_message |-> None]

NoResult == StepResult("", "", None, "none", EmptyMap, FALSE, EmptyMap)

NoOutcome == Outcome(FALSE, "", "none", EmptyMap, None)

\* the entry of hist for a step row: the call and the node of the visit and,
\* once the step has executed, the context it started from, what the
\* executor did and what _execute_step returned
Visit(call, n, done, ctx, outcome, step_result) ==
  [call |-> call, node |-> n, done |-> done, context |-> ctx,
   outcome |-> outcome, result |-> step_result]

\* datetime.utcnow() after an executor has been applied: the clock does not
\* go back, and time passes, if it does, while the worker waits for the
\* executor (line 164, where it may block); the other reads return now
ClockReads == {d \in {now, now + 1} : d <= MaxClock}

(***************************************************************************)
(* Task scheduler (src/api/asynchronous_task/task_schedules.py): requests, *)
(* schedule payloads and their translation                                 *)
(***************************************************************************)
\* dict.get(key, default) on an optional value: <<>> when the key is
\* absent, <<v>> when it holds v
Get(opt, default) == IF opt = <<>> THEN default ELSE opt[1]

\* the parameter names declared for the task (DefAsyncTaskParam rows)
DeclaredParams == {"user_id"}

\* a parameter map is modelled by its keys: the handlers copy the values
ParameterMaps == {{}, {"user_id", "extra"}}

sMinutes == <<"m", "i", "n", "u", "t", "e", "s">>
sHours == <<"H", "o", "u", "r", "s">>
sDays == <<"D", "A", "Y", "S">>
sWeeks == <<"w", "e", "e", "k", "s">>
sMonths == <<"M", "o", "n", "t", "h", "(", "s", ")">>
sWeek == <<"W", "E", "E", "K">>
sHoursPadded == <<" ", "h", "o", "u", "r", "s", " ">>
sFortnight == <<"f", "o", "r", "t", "n", "i", "g", "h", "t">>
sDate ==
  <<"2", "0", "2", "5", "-", "0", "3", "-", "0", "1", " ",
    "1", "4", ":", "3", "0">>
sTomorrow == <<"t", "o", "m", "o", "r", "r", "o", "w">>
sMon == <<"m", "o", "n">>
sSun == <<"S", "u", "n">>
sXyz == <<"X", "Y", "Z">>

\* the value under VALUES: none, a list of strings or one string
NoValues == [kind |-> "none", list |-> <<>>, str |-> <<>>]

ListValues(l) == [kind |-> "list", list |-> l, str |-> <<>>]

StrValues(s) == [kind |-> "str", list |-> <<>>, str |-> s]

\* the schedule payload of a request or of a row
Schedule(frequency_type, frequency, values) ==
  [FREQUENCY_TYPE |-> frequency_type, FREQUENCY |-> frequency,
   VALUES |-> values]

EmptySchedule == Schedule(<<>>, <<>>, NoValues)

\* every PERIODIC payload the translations are applied to
PeriodicSchedules ==
  {Schedule(<<sMinutes>>, <<15>>, NoValues),
   Schedule(<<sHours>>, <<2>>, NoValues),
   Schedule(<<sDays>>, <<>>, NoValues),
   Schedule(<<sWeeks>>, <<2>>, NoValues),
   Schedule(<<sMonths>>, <<1>>, NoValues),
   Schedule(<<sFortnight>>, <<1>>, NoValues),
   Schedule(<<sWeek>>, <<1>>, NoValues),
   Schedule(<<sHoursPadded>>, <<3>>, NoValues),
   EmptySchedule}

\* every (schedule_type, schedule) pair the translations are applied to
AllScheduleRequests ==
  ({"PERIODIC"} \X PeriodicSchedules)
  \cup {<<"ONCE", Schedule(<<>>, <<>>, StrValues(sDate))>>,
        <<"ONCE", Schedule(<<>>, <<>>, StrValues(sTomorrow))>>,
        <<"ONCE", EmptySchedule>>,
        <<"WEEKLY_SPECIFIC_DAYS",
          Schedule(<<>>, <<>>, ListValues(<<sMon, sXyz, sSun>>))>>,
        <<"WEEKLY_SPECIFIC_DAYS",
          Schedule(<<>>, <<>>, ListValues(<<sXyz>>))>>,
        <<"MONTHLY_SPECIFIC_DATES",
          Schedule(<<>>, <<>>, ListValues(<<<<"5">>, <<"1", "5">>>>))>>,
        <<"IMMEDIATE", EmptySchedule>>,
        <<"YEARLY", EmptySchedule>>}

\* the (schedule_type, schedule) pairs the requests of the handlers carry
ScheduleRequests ==
  {<<"PERIODIC", Schedule(<<sWeeks>>, <<2>>, NoValues)>>,
   <<"PERIODIC", Schedule(<<sFortnight>>, <<1>>, NoValues)>>,
   <<"ONCE", Schedule(<<>>, <<>>, StrValues(sDate))>>,
   <<"ONCE", EmptySchedule>>,
   <<"IMMEDIATE", EmptySchedule>>}

\* celery's crontab: each field lists its values, <<>> stands for '*'
Crontab(minute, hour, day_of_week, day_of_month, month_of_year) ==
  [set |-> TRUE, minute |-> minute, hour |-> hour,
   day_of_week |-> day_of_week, day_of_month |-> day_of_month,
   month_of_year |-> month_of_year]

\* cron_schedule = None
NoCron ==
  [set |-> FALSE, minute |-> <<>>, hour |-> <<>>, day_of_week |-> <<>>,
   day_of_month |-> <<>>, month_of_year |-> <<>>]

\* schedule_minutes = None; 0 is treated as None by every test of the code
NoMinutes == 0

\* day_map, lines 84-87: -1 when day.upper() is not a key
day_map(day) ==
  LET d == Upper(day)
  IN CASE d = <<"S", "U", "N">> -> 0 [] d = <<"M", "O", "N">> -> 1
       [] d = <<"T", "U", "E">> -> 2 [] d = <<"W", "E", "D">> -> 3
       [] d = <<"T", "H", "U">> -> 4 [] d = <<"F", "R", "I">> -> 5
       [] d = <<"S", "A", "T">> -> 6 [] OTHER -> -1

\* the days of line 88, in the order of the list
RECURSIVE days_of_week(_)
days_of_week(values) ==
  IF values = <<>> THEN <<>>
  ELSE IF day_map(Head(values)) # -1
  THEN <<day_map(Head(values))>> \o days_of_week(Tail(values))
  ELSE days_of_week(Tail(values))

\* datetime.strptime(s, "%Y-%m-%d %H:%M") raises unless s has that form
StrptimeOk(s) ==
  /\ Len(s) = 16
  /\ s[5] = "-" /\ s[8] = "-" /\ s[11] = " " /\ s[14] = ":"
  /\ \A i \in (1..16) \ {5, 8, 11, 14} : s[i] \in Digits

\* a translation of a payload: what the handler does next ("store",
\* "adhoc", a status code to return, or "raise"), and the interval or the
\* crontab it hands to the store
Translation(next, schedule_minutes, cron_schedule) ==
  [next |-> next, schedule_minutes |-> schedule_minutes,
   cron_schedule |-> cron_schedule]

\* lines 82-101 (and 402-416, 527-544): the crontab of the three calendar
\* types; crontab() raises on an empty list of days or dates, strptime on
\* a string of another form and on None
RECURSIVE dates_of_month(_)
dates_of_month(values) ==
  IF values = <<>> THEN <<>>
  ELSE <<DecVal(Head(values))>> \o dates_of_month(Tail(values))

cron_translation(schedule_type, schedule_data) ==
  LET values == schedule_data.VALUES
  IN CASE schedule_type = "WEEKLY_SPECIFIC_DAYS" ->
            IF days_of_week(values.list) = <<>>
            THEN Translation("raise", NoMinutes, NoCron)
            ELSE Translation("store", NoMinutes,
                   Crontab(<<0>>, <<0>>, days_of_week(values.list), <<>>,
                           <<>>))
       [] schedule_type = "MONTHLY_SPECIFIC_DATES" ->
            IF values.list = <<>>
            THEN Translation("raise", NoMinutes, NoCron)
            ELSE Translation("store", NoMinutes,
                   Crontab(<<0>>, <<0>>, <<>>, dates_of_month(values.list),
                           <<>>))
       [] OTHER ->
            IF values.kind = "str" /\ StrptimeOk(values.str)
            THEN Translation("store", NoMinutes,
                   Crontab(<<DecVal(SubSeq(values.str, 15, 16))>>,
                           <<DecVal(SubSeq(values.str, 12, 13))>>, <<>>,
                           <<DecVal(SubSeq(values.str, 9, 10))>>,
                           <<DecVal(SubSeq(values.str, 6, 7))>>))
            ELSE Translation("raise", NoMinutes, NoCron)

CalendarTypes == {"WEEKLY_SPECIFIC_DAYS", "MONTHLY_SPECIFIC_DATES", "ONCE"}

\* line 106 (and 548)
frequency_type_of(frequency_type_raw) ==
  Remove(Remove(RStripChar(Strip(Upper(frequency_type_raw)), "s"), "("), ")")

\* lines 105-125 (and 547-562): the interval in minutes, -1 for an invalid
\* frequency type
periodic_minutes(schedule_data) ==
  LET frequency_type ==
        frequency_type_of(Get(schedule_data.FREQUENCY_TYPE, Upper(sMinutes)))
      frequency == Get(schedule_data.FREQUENCY, 1)
  IN CASE frequency_type = <<"M", "O", "N", "T", "H", "S">> ->
            frequency * 30 * 24 * 60
       [] frequency_type = <<"W", "E", "E", "K", "S">> ->
            frequency * 7 * 24 * 60
       [] frequency_type = <<"D", "A", "Y", "S">> -> frequency * 24 * 60
       [] frequency_type = <<"H", "O", "U", "R", "S">> -> frequency * 60
       [] frequency_type = <<"M", "I", "N", "U", "T", "E", "S">> -> frequency
       [] OTHER -> -1

\* Update_TaskSchedule, lines 419-429: the interval in minutes
update_periodic_minutes(schedule_data) ==
  LET frequency_type == Lower(Get(schedule_data.FREQUENCY_TYPE, sMinutes))
      frequency == Get(schedule_data.FREQUENCY, 1)
  IN CASE frequency_type = <<"m", "o", "n", "t", "h", "s">> ->
            frequency * 30 * 24 * 60
       [] frequency_type = <<"d", "a", "y", "s">> -> frequency * 24 * 60
       [] frequency_type = <<"h", "o", "u", "r", "s">> -> frequency * 60
       [] OTHER -> frequency

\* Create_TaskSchedule, lines 82-234
create_translation(schedule_type, schedule_data) ==
  CASE schedule_type = "ONCE"
       /\ schedule_data.VALUES \in {NoValues, StrValues(<<>>), ListValues(<<>>)} ->
         Translation("400", NoMinutes, NoCron)
    [] schedule_type \in CalendarTypes ->
         cron_translation(schedule_type, schedule_data)
    [] schedule_type = "PERIODIC" ->
         IF periodic_minutes(schedule_data) = -1
         THEN Translation("400", NoMinutes, NoCron)
         ELSE Translation("store", periodic_minutes(schedule_data), NoCron)
    [] schedule_type = "IMMEDIATE" -> Translation("adhoc", NoMinutes, NoCron)
    [] OTHER -> Translation("400", NoMinutes, NoCron)

\* Update_TaskSchedule, lines 399-433
update_translation(schedule_type, schedule_data) ==
  CASE schedule_type \in CalendarTypes ->
         cron_translation(schedule_type, schedule_data)
    [] schedule_type = "PERIODIC" ->
         IF update_periodic_minutes(schedule_data) = NoMinutes
         THEN Translation("400", NoMinutes, NoCron)
         ELSE Translation("store", update_periodic_minutes(schedule_data),
                          NoCron)
    [] OTHER -> Translation("400", NoMinutes, NoCron)

\* Reschedule_TaskSchedule, lines 522-565
reschedule_translation(schedule_type, schedule_data) ==
  CASE schedule_type \in CalendarTypes ->
         cron_translation(schedule_type, schedule_data)
    [] schedule_type = "PERIODIC" ->
         IF periodic_minutes(schedule_data) = -1
         THEN Translation("400", NoMinutes, NoCron)
         ELSE Translation("store", periodic_minutes(schedule_data), NoCron)
    [] OTHER -> Translation("400", NoMinutes, NoCron)

\* the arguments threaded to the executor, line 66; the script and the user
\* names are those of the task and are left out
Args(task_name, redbeat_schedule_name, schedule_type, schedule_data) ==
  [task_name |-> task_name, redbeat_schedule_name |-> redbeat_schedule_name,
   schedule_type |-> schedule_type, schedule_data |-> schedule_data]

\* a DefAsyncTaskScheduleNew row
ScheduleRow(redbeat_schedule_name, task_name, args, kwargs, parameters, schedule_type, schedule, cancelled_yn) ==
  [redbeat_schedule_name |-> redbeat_schedule_name, task_name |-> task_name,
   args |-> args, kwargs |-> kwargs, parameters |-> parameters,
   schedule_type |-> schedule_type, schedule |-> schedule,
   cancelled_yn |-> cancelled_yn]

\* an entry of the recurring store
Entry(executor, schedule_minutes, cron_schedule, args, kwargs) ==
  [live |-> TRUE, executor |-> executor,
   schedule_minutes |-> schedule_minutes, cron_schedule |-> cron_schedule,
   args |-> args, kwargs |-> kwargs]

\* no entry under a name
NoEntry ==
  [live |-> FALSE, executor |-> "", schedule_minutes |-> NoMinutes,
   cron_schedule |-> NoCron, args |-> Args("", 0, "", EmptySchedule),
   kwargs |-> {}]

\* the names the store can hold: the k-th schedule created has name k, which
\* stands for "{user_schedule_name}_{uuid}"; 0 stands for no name
ScheduleNames == 1..MaxRequests

\* the task names of requests: the one task, and no name
RequestTaskNames == {"job", ""}

\* DefAsyncTask.query.filter_by(task_name=task_name).first()
TaskRow(task_name) == IF task_name = "job" THEN task ELSE "missing"

\* task.executor
ExecutorOf(task_name) == "executors.python.execute"

Response(op, code) == [op |-> op, code |-> code]

\* the scheduler before any request
SchedInit ==
  /\ task = "active"
  /\ schedules = <<>>
  /\ store = [n \in ScheduleNames |-> NoEntry]
  /\ adhoc = {}
  /\ response = Response("", 0)
  /\ requests = 0

EngineInit ==
  /\ graph \in Structures
  /\ process_stored = TRUE
  /\ execution = NoExecution
  /\ steps = <<>>
  /\ pc = "idle"
  /\ structure = NoStructure
  /\ current_nodes = <<>>
  /\ node = NoNode
  /\ step_record = 0
  /\ context = EmptyMap
  /\ result = NoResult
  /\ now = 1
  /\ calls = 0
  /\ exit = "none"
  /\ raised = ""
  /\ hist = <<>>

\* no payload is being translated
NotTranslated == Translation("", NoMinutes, NoCron)

Handlers == {"Create", "Update", "Reschedule"}

TranslateInit ==
  /\ payload = <<"", EmptySchedule>>
  /\ translated = [h \in Handlers |-> NotTranslated]

\* no stream is connected
StreamInit ==
  /\ stream_pc = "none"
  /\ stream_id = 0
  /\ current_status = ""
  /\ last_step_states = <<>>
  /\ event_counter = 0
  /\ consecutive_errors = 0
  /\ slept = FALSE
  /\ hour_passed = FALSE
  /\ session = "none"
  /\ events = <<>>
  /\ connected_at = 0

\* no graph is being analysed
NoAnalysis == [code |-> 0, workflow_inputs |-> <<>>]

ParamsInit ==
  /\ analysis = [nodes |-> <<>>, edges |-> <<>>]
  /\ required = NoAnalysis

\* no Cancel and no Reschedule request is under way
WorkersIdle == workers = [w \in {"Cancel", "Reschedule"} |-> "idle"]

\* no run_dynamic request arrives
NoDynamic == dynamic = NoStructure /\ dynamic_status = 0

WorkersInit == WorkersIdle /\ NoDynamic

Init ==
  /\ EngineInit /\ SchedInit /\ TranslateInit /\ StreamInit
  /\ WorkersInit /\ ParamsInit

(***************************************************************************)
(* Operations                                                              *)
(***************************************************************************)
\* delete_workflow: the DefProcess row is deleted
delete_workflow ==
  /\ process_stored
  /\ process_stored' = FALSE
  /\ UNCHANGED <<graph, execution, steps, pc, structure, current_nodes, node,
                 step_record, context, result, now, calls, exit, raised, hist>>
  /\ UNCHANGED other_vars

\* initialize_execution(process_id, context): process_id 0 is None, 1 names
\* the stored process, 2 names none
engine_initialize_execution(process_id, input) ==
  /\ execution.id = 0
  /\ pc = "idle"
  /\ IF process_id # 0 /\ ~(process_id = 1 /\ process_stored)
     THEN /\ raised' = "Process not found"
          /\ UNCHANGED <<execution, now>>
     ELSE /\ execution' = [NoExecution EXCEPT !.id = 1,
                                              !.process_id = process_id,
                                              !.execution_status = "RUNNING",
                                              !.input_data = input,
                                              !.execution_start_date = now]
          /\ raised' = ""
  /\ UNCHANGED <<graph, process_stored, steps, pc, structure, current_nodes,
                 node, step_record, context, result, now, calls, exit, hist>>

\* a request other than run_dynamic creates the Execution
initialize_execution(process_id, input) ==
  /\ engine_initialize_execution(process_id, input)
  /\ UNCHANGED other_vars

\* the handler of execute_from_id, lines 352-358: the row becomes FAILED with
\* the message and the exception is re-raised
fail_and_raise(message) ==
  /\ execution' = [execution EXCEPT !.execution_status = "FAILED",
                                    !.execution_end_date = now,
                                    !.error_message = message]
  /\ pc' = "idle"
  /\ exit' = "raised"
  /\ raised' = message

\* execute_from_id, lines 239-267: look the row up, determine the structure,
\* parse it and find the Start node
execute_from_id(execution_id, process_structure) ==
  /\ pc = "idle"
  /\ calls < MaxCalls
  /\ calls' = calls + 1
  /\ IF execution.id = 0 \/ execution.id # execution_id
     THEN /\ exit' = "not_found"
          /\ raised' = "Execution record not found"
          /\ UNCHANGED <<execution, pc, structure, current_nodes, context>>
     ELSE LET structure_to_use ==
                IF process_structure # NoStructure THEN process_structure
                ELSE IF execution.process_id = 1 /\ process_stored THEN graph
                ELSE NoStructure
          IN IF structure_to_use = NoStructure
             THEN /\ exit' = "raised"
                  /\ raised' = "No workflow structure found for execution"
                  /\ UNCHANGED <<execution, pc, structure, current_nodes,
                                 context>>
             ELSE /\ structure' = structure_to_use
                  /\ context' = execution.input_data
                  /\ IF find_start(structure_to_use) = NoNode
                     THEN /\ fail_and_raise("No Start node found")
                          /\ UNCHANGED current_nodes
                     ELSE /\ current_nodes' = <<find_start(structure_to_use)>>
                          /\ pc' = "loop"
                          /\ exit' = "running"
                          /\ raised' = ""
                          /\ UNCHANGED execution
  /\ UNCHANGED <<graph, process_stored, steps, node, step_record, result, now,
                 hist>>
  /\ UNCHANGED other_vars

\* add_step that puts the new row before the others
add_step_first(rows, row) == <<row>> \o rows

\* db.session.add(step_record)
add_step(rows, row) == Append(rows, row)

\* execute_from_id, lines 270-284: pop the frontier and insert the Step row
begin_step ==
  /\ pc = "loop"
  /\ current_nodes # <<>>
  /\ Len(steps) < MaxSteps
  /\ steps' = add_step(steps,
                [id |-> Len(steps) + 1, node_id |-> Head(current_nodes).id,
                 status |-> "RUNNING", execution_start_date |-> now,
                 execution_end_date |-> NoDate, result_kind |-> "none",
                 result |-> EmptyMap, error_message |-> None])
  /\ node' = Head(current_nodes)
  /\ current_nodes' = Tail(current_nodes)
  /\ step_record' = Len(steps) + 1
  /\ pc' = "execute"
  /\ hist' = Append(hist, Visit(calls, Head(current_nodes), FALSE, EmptyMap,
                                NoOutcome, NoResult))
  /\ UNCHANGED <<graph, process_stored, execution, structure, context, result,
                 now, calls, exit, raised>>
  /\ UNCHANGED other_vars

\* final_status that leaves the row of a passed step as it was inserted
final_status_passed_left(step_result) ==
  IF step_result.status = "passed" THEN "RUNNING" ELSE step_result.status

\* the status written to the Step row, line 295
final_status(step_result) == step_result.status

\* execute_from_id, lines 286-301: execute the step and finalize its row
run_step ==
  /\ pc = "execute"
  /\ \E outcome \in ExecutorOutcomes, d \in ClockReads :
       LET r == execute_step(node, context, outcome)
       IN /\ r.invoked \/ d = now
          /\ result' = r
          /\ context' = context_after_step(node, context)
          /\ steps' = [steps EXCEPT ![step_record] =
                         [@ EXCEPT !.status = final_status(r),
                                   !.result_kind =
                                      IF r.status = "completed"
                                      THEN r.result_kind ELSE @,
                                   !.result =
                                      IF r.status = "completed"
                                      THEN r.result ELSE @,
                                   !.error_message = r.error,
                                   !.execution_end_date = d]]
          /\ now' = d
          /\ hist' = [hist EXCEPT ![step_record] =
                        Visit(calls, node, TRUE, context,
                              IF r.invoked THEN outcome ELSE NoOutcome, r)]
  /\ pc' = "finalized"
  /\ UNCHANGED <<graph, process_stored, execution, structure, current_nodes,
                 node, step_record, calls, exit, raised>>
  /\ UNCHANGED other_vars

\* whether lines 315-316 merge the step's result into the context
merges(step_result) ==
  step_result.result_kind = "dict" /\ step_result.result # EmptyMap

\* merged_context that drops the result
merged_context_dropped(ctx, step_result) == ctx

\* the running context after lines 315-316
merged_context(ctx, step_result) ==
  IF merges(step_result) THEN context_update(ctx, step_result.result) ELSE ctx

\* line 320: the node ends the loop
is_stop(n) == NodeTypeBehavior(n.type) = "EVENT" /\ n.type = "Stop"

\* lines 331-339: a gateway that cannot continue fails the Execution
gateway_failure(message) ==
  /\ execution' = [execution EXCEPT !.execution_status = "FAILED",
                                    !.error_message = message]
  /\ pc' = "idle"
  /\ exit' = "returned"
  /\ UNCHANGED current_nodes

\* execute_from_id, lines 305-344 and the loop test of line 269
after_step ==
  /\ pc = "finalized"
  /\ IF result.status = "failed"
     THEN /\ execution' = [execution EXCEPT
                             !.execution_status = "FAILED",
                             !.execution_end_date = now,
                             !.error_message = result.error]
          /\ pc' = "idle"
          /\ exit' = "returned"
          /\ UNCHANGED <<context, current_nodes>>
     ELSE /\ context' = merged_context(context, result)
          /\ IF is_stop(node)
             THEN /\ pc' = "success"
                  /\ UNCHANGED <<execution, current_nodes, exit>>
             ELSE IF NodeTypeBehavior(node.type) = "GATEWAY"
             THEN LET decision == evaluate_decision(structure, node, context')
                  IN IF decision.raised
                     THEN gateway_failure("Gateway evaluation error")
                     ELSE IF nodes_get(structure, decision.target) = NoNode
                     THEN gateway_failure("Gateway target node not found")
                     ELSE /\ current_nodes' =
                               Append(current_nodes,
                                      nodes_get(structure, decision.target))
                          /\ pc' = "loop"
                          /\ UNCHANGED <<execution, exit>>
             ELSE LET next_nodes == get_next_nodes(structure, node.id)
                  IN /\ current_nodes' =
                          IF next_nodes # <<>>
                          THEN Append(current_nodes, next_nodes[1])
                          ELSE current_nodes
                     /\ pc' = IF current_nodes' = <<>> THEN "success" ELSE "loop"
                     /\ UNCHANGED <<execution, exit>>
  /\ UNCHANGED <<graph, process_stored, steps, structure, node, step_record,
                 result, now, calls, raised, hist>>
  /\ UNCHANGED other_vars

\* execute_from_id, lines 346-350: the loop has ended
success ==
  /\ pc = "success"
  /\ execution' = [execution EXCEPT !.execution_status = "COMPLETED",
                                    !.execution_end_date = now,
                                    !.output_data = <<context>>]
  /\ pc' = "idle"
  /\ exit' = "returned"
  /\ UNCHANGED <<graph, process_stored, steps, structure, current_nodes, node,
                 step_record, context, result, now, calls, raised, hist>>
  /\ UNCHANGED other_vars

\* a request creates the Execution: for no process, for the stored one or
\* for an unknown one
start_run ==
  \E process_id \in 0..2, input \in InputContexts :
    initialize_execution(process_id, input)

\* the worker calls execute_from_id, with an id that may name no row and
\* with or without the structure of the request
start_worker ==
  \E execution_id \in 1..2, process_structure \in {NoStructure, graph} :
    execute_from_id(execution_id, process_structure)

Next ==
  \/ delete_workflow
  \/ start_run
  \/ start_worker
  \/ begin_step
  \/ run_step
  \/ after_step
  \/ success

Spec == Init /\ [][Next]_vars

(***************************************************************************)
(* Properties                                                              *)
(***************************************************************************)
Terminal == {"COMPLETED", "FAILED"}

\* the last node visited
LastVisited == hist[Len(hist)].node

\* the outgoing edges of a node of the structure in use, in declaration order
Outgoing(n) ==
  LET FromN(e) == e.source = n.id
  IN SelectSeq(structure.edges, FromN)

\* C1: whenever a call of execute_from_id has returned, the Execution is
\* COMPLETED or FAILED and its execution_end_date is set.  The engine
\* violates it: a gateway without outgoing edges, or whose chosen target is
\* missing, makes the call return with FAILED and no execution_end_date.
Terminality ==
  exit = "returned" =>
    /\ execution.execution_status \in Terminal
    /\ execution.execution_end_date # NoDate

\* C2: whenever a call of execute_from_id for an existing Execution has
\* ended, by returning or by raising, the Execution is not RUNNING.  The
\* engine violates it: without a structure the call raises before the
\* handler that marks the Execution FAILED is in force.
NeverRunningAfterExit ==
  exit \in {"returned", "raised"} => execution.execution_status # "RUNNING"

\* the visit applied an executor that raised or returned a non-empty error
ExecutorFailed(h) ==
  /\ h.done
  /\ h.result.invoked
  /\ (h.outcome.raises \/ h.outcome.error \notin {None, ""})

\* the error of such a visit
ExecutorError(h) ==
  IF h.outcome.raises THEN h.outcome.message ELSE h.outcome.error

\* C3: when a step's executor raises or returns a non-empty error, with or
\* without a result, its Step row is failed with that error, no Step row
\* follows it in the same call, and the call returns with the Execution
\* FAILED and error_message equal to that error.
StepFailureStopsRun ==
  \A i \in 1..Len(hist) :
    ExecutorFailed(hist[i]) =>
      /\ steps[i].status = "failed"
      /\ steps[i].error_message = ExecutorError(hist[i])
      /\ \A j \in (i + 1)..Len(hist) : hist[j].call > hist[i].call
      /\ hist[i].call = calls =>
           /\ pc \in {"finalized", "idle"}
           /\ pc = "idle" =>
                /\ exit = "returned"
                /\ execution.execution_status = "FAILED"
                /\ execution.error_message = ExecutorError(hist[i])

\* C3 happens: an executor returned an error together with a result in a
\* graph that has a node after the failed one, and the call has returned
StepFailureWitness ==
  /\ pc = "idle"
  /\ exit = "returned"
  /\ hist # <<>>
  /\ ExecutorFailed(hist[Len(hist)])
  /\ hist[Len(hist)].outcome.result_kind = "dict"
  /\ hist[Len(hist)].call = calls
  /\ get_next_nodes(structure, LastVisited.id) # <<>>

\* a over which the keys of b are laid
Overlay(a, b) == [k \in Keys |-> IF b[k] = ABSENT THEN a[k] ELSE b[k]]

\* the input context extended, in row order, by the result mapping of every
\* completed step of the given call from row i on
RECURSIVE ExtendedFrom(_, _, _)
ExtendedFrom(ctx, i, call) ==
  IF i > Len(steps) THEN ctx
  ELSE IF /\ hist[i].call = call
          /\ steps[i].status = "completed"
          /\ steps[i].result_kind = "dict"
  THEN ExtendedFrom(Overlay(ctx, steps[i].result), i + 1, call)
  ELSE ExtendedFrom(ctx, i + 1, call)

\* the last call has returned with the Execution COMPLETED
JustCompleted ==
  /\ pc = "idle"
  /\ exit = "returned"
  /\ execution.execution_status = "COMPLETED"

\* output_data is the final running context
OutputIsFinalContext ==
  execution.output_data = <<ExtendedFrom(execution.input_data, 1, calls)>>

\* no outgoing edge of the node leads to a node of the graph
DeadEnd(n) ==
  \A i \in 1..Len(Outgoing(n)) : Outgoing(n)[i].target \notin NodeIds(structure)

\* C4 as stated: an Execution becomes COMPLETED only when the traversal has
\* visited a Stop node, and output_data is then the final running context.
CompletedOnlyAtStop ==
  JustCompleted => is_stop(LastVisited) /\ OutputIsFinalContext

\* C4 amended: an Execution becomes COMPLETED only when the traversal has
\* visited a Stop node or a node that is no gateway and has no outgoing edge
\* to a node of the graph; output_data is then the final running context.
CompletedAtStopOrDeadEnd ==
  JustCompleted =>
    /\ \/ is_stop(LastVisited)
       \/ /\ NodeTypeBehavior(LastVisited.type) # "GATEWAY"
          /\ DeadEnd(LastVisited)
    /\ OutputIsFinalContext

\* C4 happens: a run completed at a node that is no Stop node, with a context
\* that a step result has extended
CompletedWitness ==
  /\ JustCompleted
  /\ ~is_stop(LastVisited)
  /\ execution.output_data # <<execution.input_data>>

\* C5: once the Execution is COMPLETED or FAILED, no step of the engine
\* changes its status.  The engine violates it: a further call of
\* execute_from_id runs the graph again and writes the status it ends with.
TerminalAbsorbing ==
  [][execution.execution_status \in Terminal =>
       execution'.execution_status = execution.execution_status]_vars

\* C6: at most one Step row is RUNNING, and it is the row inserted last:
\* every earlier row has been finalized.
AtMostOneRunningStep ==
  /\ Cardinality({i \in 1..Len(steps) : steps[i].status = "RUNNING"}) <= 1
  /\ \A i \in 1..(Len(steps) - 1) : steps[i].status # "RUNNING"

\* C6 happens: a row is RUNNING while finalized rows precede it
RunningStepWitness ==
  /\ Len(steps) >= 3
  /\ steps[Len(steps)].status = "RUNNING"
  /\ steps[1].status = "passed"

\* C7: the Step rows are in the order of the visits, and a row with an
\* earlier execution_start_date was never visited later.
StepOrdering ==
  /\ Len(steps) = Len(hist)
  /\ \A i \in 1..Len(steps) : steps[i].node_id = hist[i].node.id
  /\ \A i, j \in 1..Len(steps) :
       steps[i].execution_start_date < steps[j].execution_start_date => i < j

\* C7 happens: rows of different nodes, some with equal and some with later
\* start dates
StepOrderingWitness ==
  /\ Len(steps) >= 3
  /\ steps[1].node_id # steps[2].node_id
  /\ steps[1].execution_start_date = steps[2].execution_start_date
  /\ steps[2].execution_start_date < steps[3].execution_start_date

\* the names of the static attributes of a node
AttributeNames(n) ==
  {n.attributes[i].attribute_name : i \in 1..Len(n.attributes)}

\* the value the attributes of a node give a name: that of the last one
AttributeValue(n, k) ==
  n.attributes[Max({i \in 1..Len(n.attributes) :
                      n.attributes[i].attribute_name = k})].attribute_value

\* row i is a completed task step with a result mapping and row i + 1 is the
\* next visit of the same call, whose executor was invoked
Propagates(i) ==
  /\ i < Len(hist)
  /\ hist[i].call = hist[i + 1].call
  /\ steps[i].status = "completed"
  /\ steps[i].result_kind = "dict"
  /\ hist[i + 1].done
  /\ hist[i + 1].result.invoked

\* C8: when a task step completes with result {k: v} and the next node
\* visited invokes its executor, the named parameters hold k = v, or the
\* value of the node's static attribute k when it has one.
ContextPropagation ==
  \A i \in 1..Len(hist) :
    Propagates(i) =>
      \A k \in MapKeys(steps[i].result) :
        hist[i + 1].result.kwargs[k] =
          IF k \in AttributeNames(hist[i + 1].node)
          THEN AttributeValue(hist[i + 1].node, k)
          ELSE steps[i].result[k]

\* C8 happens: one result key reaches the next executor as returned, another
\* time it is overridden by an attribute of a different value
ContextPropagationWitness ==
  /\ \E i \in 1..Len(hist) :
       /\ Propagates(i)
       /\ \E k \in MapKeys(steps[i].result) :
            k \notin AttributeNames(hist[i + 1].node)
  /\ \E i \in 1..Len(hist) :
       /\ Propagates(i)
       /\ \E k \in MapKeys(steps[i].result) :
            /\ k \in AttributeNames(hist[i + 1].node)
            /\ AttributeValue(hist[i + 1].node, k) # steps[i].result[k]

\* C9: the running context changes only when a call starts, where it is the
\* input context, and after a completed step, and then only in keys of the
\* result mapping the executor returned, which get the returned values.
AttributesStayLocal ==
  [][\/ context' = context
     \/ pc = "idle" /\ context' = execution.input_data
     \/ /\ pc = "finalized"
        /\ result.status = "completed"
        /\ result.result_kind = "dict"
        /\ \A k \in Keys :
             context'[k] # context[k] =>
               /\ result.result[k] # ABSENT
               /\ context'[k] = result.result[k]]_vars

\* C9 happens: an executor was invoked with an attribute value that the
\* context did not hold before and does not hold after the step
AttributesStayLocalWitness ==
  /\ pc = "loop"
  /\ hist # <<>>
  /\ hist[Len(hist)].call = calls
  /\ hist[Len(hist)].done
  /\ hist[Len(hist)].result.invoked
  /\ \E k \in AttributeNames(LastVisited) :
       /\ hist[Len(hist)].result.kwargs[k] = AttributeValue(LastVisited, k)
       /\ hist[Len(hist)].context[k] # AttributeValue(LastVisited, k)
       /\ context[k] # AttributeValue(LastVisited, k)

\* the positions of the outgoing edges whose condition evaluates true
TrueEdges(n) ==
  {i \in 1..Len(Outgoing(n)) : evaluate_condition(Outgoing(n)[i], context)}

\* the positions of the outgoing edges marked is_default
DefaultEdges(n) ==
  {i \in 1..Len(Outgoing(n)) : Outgoing(n)[i].condition.is_default}

\* the targets the gateway may select: of the first edge whose condition is
\* true, else of an edge marked is_default, else of the first edge
SelectedTargets(n) ==
  IF TrueEdges(n) # {} THEN {Outgoing(n)[Min(TrueEdges(n))].target}
  ELSE IF DefaultEdges(n) # {}
  THEN {Outgoing(n)[i].target : i \in DefaultEdges(n)}
  ELSE IF Outgoing(n) # <<>> THEN {Outgoing(n)[1].target}
  ELSE {}

\* the node visited last in the call under way, or just ended, is a gateway
AtGateway ==
  /\ hist # <<>>
  /\ hist[Len(hist)].call = calls
  /\ hist[Len(hist)].done
  /\ node = LastVisited
  /\ NodeTypeBehavior(node.type) = "GATEWAY"

\* the gateway has been visited and the traversal goes on
GatewayChose == pc = "loop" /\ AtGateway

\* the call has returned from the visit of a gateway
GatewayReturned == pc = "idle" /\ exit = "returned" /\ AtGateway

\* C10: after a gateway the frontier holds the node that is the target of
\* the first outgoing edge whose condition is true, else of an edge marked
\* is_default, else of the first outgoing edge; the call returns from a
\* gateway only with the Execution FAILED, and does so when the gateway has
\* no outgoing edge.
GatewaySelection ==
  /\ GatewayChose =>
       /\ Len(current_nodes) = 1
       /\ current_nodes[1].id \in SelectedTargets(node)
       /\ current_nodes[1] = nodes_get(structure, current_nodes[1].id)
  /\ GatewayReturned =>
       /\ execution.execution_status = "FAILED"
       /\ SelectedTargets(node) \cap NodeIds(structure) = {}
  /\ (pc \in {"loop", "success"} /\ AtGateway) => Outgoing(node) # <<>>

\* C10 happens: an edge marked is_default precedes an edge whose condition is
\* true, and the gateway selected the target of the latter
GatewaySelectionWitness ==
  /\ GatewayChose
  /\ \E d \in DefaultEdges(node), t \in TrueEdges(node) :
       /\ d < t
       /\ Outgoing(node)[d].target # Outgoing(node)[t].target
       /\ current_nodes[1].id = Outgoing(node)[t].target

(***************************************************************************)
(* The worker thread runs on: each step of a call that is enabled is       *)
(* eventually taken                                                        *)
(***************************************************************************)
FairSpec ==
  /\ Spec
  /\ WF_vars(begin_step)
  /\ WF_vars(run_step)
  /\ WF_vars(after_step)
  /\ WF_vars(success)

\* the structure whose edges S -> B -> A -> B form a loop without a Stop
LoopStructure ==
  [nodes |-> AllNodes,
   edges |-> <<Flow("S", "B"), Flow("B", "A"), Flow("A", "B")>>]

FindSchedule(task_name, redbeat_schedule_name) ==
  LET found == {i \in 1..Len(schedules) :
                  /\ schedules[i].task_name = task_name
                  /\ schedules[i].redbeat_schedule_name = redbeat_schedule_name}
  IN IF found = {} THEN 0 ELSE Min(found)

\* create_redbeat_schedule and update_redbeat_schedule, when the store
\* accepts the write: the entry under the name is the one written
store_write(name, entry) == [store EXCEPT ![name] = entry]

\* delete_schedule_from_redis, when the store deletes
store_delete(name) == [store EXCEPT ![name] = NoEntry]

\* execute_ad_hoc_task_v1: the task is dispatched once, no entry is written
adhoc_dispatch(task_name) == adhoc \cup {task_name}

\* lines 70-76: every declared parameter is taken from the map; FALSE when
\* one is missing
params_present(parameters) == DeclaredParams \subseteq parameters

\* the kwargs built by lines 70-74
declared_kwargs(parameters) == parameters \cap DeclaredParams

\* Create_TaskSchedule that persists the row before the store has answered
Create_TaskSchedule_row_first(task_name, parameters, schedule_type, schedule_data, accepted) ==
  LET redbeat_schedule_name ==
        IF schedule_type # "IMMEDIATE" THEN Len(schedules) + 1 ELSE 0
      given == Get(parameters, {})
      kwargs == declared_kwargs(given)
      args == Args(task_name, redbeat_schedule_name, schedule_type,
                   schedule_data)
      tr == create_translation(schedule_type, schedule_data)
      bad == \/ task_name = ""
             \/ TaskRow(task_name) # "active"
             \/ ~params_present(given)
             \/ tr.next = "400"
  IN /\ IF bad
        THEN /\ response' = Response("Create", 400)
             /\ UNCHANGED <<schedules, store, adhoc>>
        ELSE IF tr.next = "raise" \/ (tr.next = "adhoc" /\ ~accepted)
        THEN /\ response' = Response("Create", 500)
             /\ UNCHANGED <<schedules, store, adhoc>>
        ELSE IF ~accepted
        THEN /\ schedules' =
                  Append(schedules,
                    ScheduleRow(redbeat_schedule_name, task_name, args,
                                kwargs, kwargs, schedule_type, schedule_data,
                                "N"))
             /\ response' = Response("Create", 500)
             /\ UNCHANGED <<store, adhoc>>
        ELSE IF tr.next = "adhoc"
        THEN /\ adhoc' = adhoc_dispatch(task_name)
             /\ response' = Response("Create", 201)
             /\ UNCHANGED <<schedules, store>>
        ELSE /\ store' =
                  store_write(redbeat_schedule_name,
                    Entry(ExecutorOf(task_name), tr.schedule_minutes,
                          tr.cron_schedule, args, kwargs))
             /\ schedules' =
                  Append(schedules,
                    ScheduleRow(redbeat_schedule_name, task_name, args,
                                kwargs, kwargs, schedule_type, schedule_data,
                                "N"))
             /\ response' = Response("Create", 201)
             /\ UNCHANGED adhoc
     /\ UNCHANGED <<task, outside_sched>>

\* Create_TaskSchedule
Create_TaskSchedule(task_name, parameters, schedule_type, schedule_data, accepted) ==
  LET redbeat_schedule_name ==
        IF schedule_type # "IMMEDIATE" THEN Len(schedules) + 1 ELSE 0
      given == Get(parameters, {})
      kwargs == declared_kwargs(given)
      args == Args(task_name, redbeat_schedule_name, schedule_type,
                   schedule_data)
      tr == create_translation(schedule_type, schedule_data)
      bad == \/ task_name = ""
             \/ TaskRow(task_name) # "active"
             \/ ~params_present(given)
             \/ tr.next = "400"
  IN /\ IF bad
        THEN /\ response' = Response("Create", 400)
             /\ UNCHANGED <<schedules, store, adhoc>>
        ELSE IF tr.next = "raise" \/ ~accepted
        THEN /\ response' = Response("Create", 500)
             /\ UNCHANGED <<schedules, store, adhoc>>
        ELSE IF tr.next = "adhoc"
        THEN /\ adhoc' = adhoc_dispatch(task_name)
             /\ response' = Response("Create", 201)
             /\ UNCHANGED <<schedules, store>>
        ELSE /\ store' =
                  store_write(redbeat_schedule_name,
                    Entry(ExecutorOf(task_name), tr.schedule_minutes,
                          tr.cron_schedule, args, kwargs))
             /\ schedules' =
                  Append(schedules,
                    ScheduleRow(redbeat_schedule_name, task_name, args,
                                kwargs, kwargs, schedule_type, schedule_data,
                                "N"))
             /\ response' = Response("Create", 201)
             /\ UNCHANGED adhoc
     /\ UNCHANGED <<task, outside_sched>>

\* Update_TaskSchedule: the fields of the request replace those of the row
\* in the session; only the commit of line 450 persists them
Update_TaskSchedule(task_name, redbeat_schedule_name, parameters, schedule_type, schedule_data, accepted) ==
  LET i == FindSchedule(task_name, redbeat_schedule_name)
      row == schedules[i]
      updated == [row EXCEPT
                    !.parameters = Get(parameters, @),
                    !.kwargs = Get(parameters, @),
                    !.schedule_type = Get(schedule_type, @),
                    !.schedule = Get(schedule_data, @)]
      tr == update_translation(updated.schedule_type, updated.schedule)
  IN /\ IF redbeat_schedule_name = 0
        THEN /\ response' = Response("Update", 400)
             /\ UNCHANGED <<schedules, store>>
        ELSE IF i = 0
        THEN /\ response' = Response("Update", 404)
             /\ UNCHANGED <<schedules, store>>
        ELSE IF tr.next = "400"
        THEN /\ response' = Response("Update", 400)
             /\ UNCHANGED <<schedules, store>>
        ELSE IF \/ tr.next = "raise"
                \/ TaskRow(task_name) = "missing"
                \/ ~accepted
        THEN /\ response' = Response("Update", 500)
             /\ UNCHANGED <<schedules, store>>
        ELSE /\ store' =
                  store_write(redbeat_schedule_name,
                    Entry(ExecutorOf(task_name), tr.schedule_minutes,
                          tr.cron_schedule, updated.args, updated.kwargs))
             /\ schedules' = [schedules EXCEPT ![i] = updated]
             /\ response' = Response("Update", 200)
     /\ UNCHANGED <<task, adhoc, outside_sched>>

\* Cancel_TaskSchedule: the row is committed as cancelled (line 483) before
\* the store is asked to delete; the rollback of line 490 finds nothing to
\* undo
Cancel_TaskSchedule(task_name, redbeat_schedule_name, deleted) ==
  LET i == FindSchedule(task_name, redbeat_schedule_name)
  IN /\ IF redbeat_schedule_name = 0
        THEN /\ response' = Response("Cancel", 400)
             /\ UNCHANGED <<schedules, store>>
        ELSE IF i = 0
        THEN /\ response' = Response("Cancel", 404)
             /\ UNCHANGED <<schedules, store>>
        ELSE /\ schedules' = [schedules EXCEPT ![i].cancelled_yn = "Y"]
             /\ IF deleted
                THEN /\ store' = store_delete(redbeat_schedule_name)
                     /\ response' = Response("Cancel", 200)
                ELSE /\ response' = Response("Cancel", 500)
                     /\ UNCHANGED store
     /\ UNCHANGED <<task, adhoc, outside_sched>>

\* FindCancelled without the filter on cancelled_yn
FindCancelled_any(task_name, redbeat_schedule_name) ==
  LET found == {i \in 1..Len(schedules) :
                  /\ schedules[i].task_name = task_name
                  /\ schedules[i].redbeat_schedule_name = redbeat_schedule_name}
  IN IF found = {} THEN 0 ELSE Min(found)

\* .filter_by(task_name=..., redbeat_schedule_name=..., cancelled_yn='Y')
FindCancelled(task_name, redbeat_schedule_name) ==
  LET found == {i \in 1..Len(schedules) :
                  /\ schedules[i].task_name = task_name
                  /\ schedules[i].redbeat_schedule_name = redbeat_schedule_name
                  /\ schedules[i].cancelled_yn = "Y"}
  IN IF found = {} THEN 0 ELSE Min(found)

\* Reschedule_TaskSchedule
Reschedule_TaskSchedule(task_name, redbeat_schedule_name, accepted) ==
  LET i == FindCancelled(task_name, redbeat_schedule_name)
      row == schedules[i]
      tr == reschedule_translation(row.schedule_type, row.schedule)
  IN /\ IF redbeat_schedule_name = 0
        THEN /\ response' = Response("Reschedule", 400)
             /\ UNCHANGED <<schedules, store>>
        ELSE IF i = 0
        THEN /\ response' = Response("Reschedule", 404)
             /\ UNCHANGED <<schedules, store>>
        ELSE IF tr.next = "400"
        THEN /\ response' = Response("Reschedule", 400)
             /\ UNCHANGED <<schedules, store>>
        ELSE IF tr.next = "raise"
        THEN /\ response' = Response("Reschedule", 500)
             /\ UNCHANGED <<schedules, store>>
        ELSE IF TaskRow(task_name) = "missing"
        THEN /\ response' = Response("Reschedule", 404)
             /\ UNCHANGED <<schedules, store>>
        ELSE IF ~accepted
        THEN /\ response' = Response("Reschedule", 500)
             /\ UNCHANGED <<schedules, store>>
        ELSE /\ store' =
                  store_write(redbeat_schedule_name,
                    Entry(ExecutorOf(task_name), tr.schedule_minutes,
                          tr.cron_schedule, row.args, row.kwargs))
             /\ schedules' = [schedules EXCEPT ![i].cancelled_yn = "N"]
             /\ response' = Response("Reschedule", 200)
     /\ UNCHANGED <<task, adhoc, outside_sched>>

\* the task registry cancels the Task (cancelled_yn = 'Y') or deletes it
retire_task(status) ==
  /\ task = "active"
  /\ task' = status
  /\ response' = Response("Task", 200)
  /\ UNCHANGED <<schedules, store, adhoc, outside_sched>>

\* optional fields of a request body
Optional(S) == {<<>>} \cup {<<v>> : v \in S}

\* a request is answered
answered ==
  /\ requests < MaxRequests
  /\ requests' = requests + 1

create_request ==
  /\ answered
  /\ \E task_name \in RequestTaskNames,
        parameters \in Optional(ParameterMaps),
        sr \in ScheduleRequests, accepted \in BOOLEAN :
       Create_TaskSchedule(task_name, parameters, sr[1], sr[2], accepted)

update_request ==
  /\ answered
  /\ \E task_name \in {"job"}, name \in 0..Len(schedules),
        parameters \in Optional(ParameterMaps),
        sr \in {<<<<>>, <<>>>>}
               \cup {<<<<r[1]>>, <<r[2]>>>> : r \in ScheduleRequests},
        accepted \in BOOLEAN :
       Update_TaskSchedule(task_name, name, parameters, sr[1], sr[2],
                           accepted)

cancel_request ==
  /\ answered
  /\ \E task_name \in {"job"}, name \in 0..Len(schedules),
        deleted \in BOOLEAN :
       Cancel_TaskSchedule(task_name, name, deleted)

reschedule_request ==
  /\ answered
  /\ \E task_name \in {"job"}, name \in 0..Len(schedules),
        accepted \in BOOLEAN :
       Reschedule_TaskSchedule(task_name, name, accepted)

\* the task registry retires the task between two requests
task_retired ==
  /\ answered
  /\ \E status \in {"cancelled", "missing"} : retire_task(status)

SchedNext ==
  \/ create_request
  \/ update_request
  \/ cancel_request
  \/ reschedule_request
  \/ task_retired

\* no workflow runs while the scheduler is followed
SchedulerInit == graph = LoopStructure /\ Init

SchedSpec == SchedulerInit /\ [][SchedNext]_vars

(***************************************************************************)
(* Properties of the task scheduler                                        *)
(***************************************************************************)
\* the row a request names, when there is one
RowOf(task_name, name) == schedules[FindSchedule(task_name, name)]

\* C12: a Schedule row with cancelled_yn = 'Y' has no live entry under its
\* redbeat_schedule_name in the recurring store
CancelledHasNoEntry ==
  \A i \in 1..Len(schedules) :
    schedules[i].cancelled_yn = "Y" =>
      ~store[schedules[i].redbeat_schedule_name].live

\* C13: a Cancel whose store deletion fails leaves the row as it was, not
\* cancelled when it was not, and leaves the store entry in place
FailedCancelChangesNothing ==
  [][\A task_name \in {"job"}, name \in 1..Len(schedules) :
       (/\ FindSchedule(task_name, name) # 0
        /\ Cancel_TaskSchedule(task_name, name, FALSE))
       => /\ schedules' = schedules
          /\ store' = store]_vars

\* C14: a Create that persists a Schedule row has been accepted by the store,
\* which holds the entry of the row's name, args and kwargs; a Create the
\* store rejects returns an error and persists no row; an IMMEDIATE Create
\* writes no entry and no row, and when it answers 201 the task has been
\* dispatched through the ad-hoc path
CreateStoreFirst ==
  [][\A task_name \in RequestTaskNames, parameters \in Optional(ParameterMaps),
        sr \in ScheduleRequests, accepted \in BOOLEAN :
       (/\ response'.op = "Create"
        /\ Create_TaskSchedule(task_name, parameters, sr[1], sr[2], accepted))
       => /\ schedules' # schedules =>
               /\ accepted
               /\ schedules' = Append(schedules, schedules'[Len(schedules')])
               /\ LET row == schedules'[Len(schedules')]
                      entry == store'[row.redbeat_schedule_name]
                  IN /\ row.cancelled_yn = "N"
                     /\ ~store[row.redbeat_schedule_name].live
                     /\ entry.live
                     /\ entry.args = row.args
                     /\ entry.kwargs = row.kwargs
          /\ ~accepted =>
               /\ response'.code >= 400
               /\ schedules' = schedules
               /\ store' = store
          /\ sr[1] = "IMMEDIATE" =>
               /\ schedules' = schedules
               /\ store' = store
               /\ response'.code = 201 => task_name \in adhoc']_vars

\* a Create has persisted a row whose entry is in the store, after an
\* IMMEDIATE Create that dispatched the task
CreateStoreFirstWitness ==
  /\ response = Response("Create", 201)
  /\ adhoc # {}
  /\ schedules # <<>>
  /\ store[schedules[1].redbeat_schedule_name].live

\* C15: a Reschedule of a row that is not cancelled answers 404 and changes
\* neither the rows nor the store; a Reschedule changes a row only by
\* clearing the flag of a cancelled row, and then the store holds, under the
\* row's name, an entry with the row's saved args and kwargs; the store is
\* written by no Reschedule that leaves the flag set
RescheduleOnlyCancelled ==
  [][\A task_name \in {"job"}, name \in 0..Len(schedules),
        accepted \in BOOLEAN :
       (/\ response'.op = "Reschedule"
        /\ Reschedule_TaskSchedule(task_name, name, accepted))
       => LET i == FindSchedule(task_name, name)
          IN /\ (i # 0 /\ schedules[i].cancelled_yn # "Y") =>
                  /\ response'.code = 404
                  /\ schedules' = schedules
                  /\ store' = store
             /\ i = 0 => (schedules' = schedules /\ store' = store)
             /\ (schedules' # schedules \/ store' # store) =>
                  /\ accepted
                  /\ response'.code = 200
                  /\ schedules[i].cancelled_yn = "Y"
                  /\ schedules' = [schedules EXCEPT ![i].cancelled_yn = "N"]
                  /\ store'[name].live
                  /\ store'[name].args = schedules[i].args
                  /\ store'[name].kwargs = schedules[i].kwargs
                  /\ \A n \in ScheduleNames \ {name} : store'[n] = store[n]
             /\ response'.code = 200 => schedules'[i].cancelled_yn = "N"]_vars

\* a cancelled row has been rescheduled: its flag is cleared and its entry
\* is back in the store
RescheduleOnlyCancelledWitness ==
  /\ response = Response("Reschedule", 200)
  /\ schedules # <<>>
  /\ schedules[1].cancelled_yn = "N"
  /\ store[schedules[1].redbeat_schedule_name].live

\* C16: a Create, Update, Cancel or Reschedule for a task name whose Task is
\* missing or cancelled is rejected (its status is 400 or more) and leaves
\* the recurring store and the Schedule rows unchanged
RetiredTaskRejected ==
  [][\A task_name \in RequestTaskNames :
       TaskRow(task_name) # "active" =>
         \A name \in 0..Len(schedules), answer \in BOOLEAN :
           (\/ /\ response'.op = "Create"
               /\ \E parameters \in Optional(ParameterMaps),
                     sr \in ScheduleRequests :
                    Create_TaskSchedule(task_name, parameters, sr[1], sr[2],
                                        answer)
            \/ /\ response'.op = "Update"
               /\ \E parameters \in Optional(ParameterMaps),
                     sr \in {<<<<>>, <<>>>>}
                            \cup {<<<<r[1]>>, <<r[2]>>>> :
                                    r \in ScheduleRequests} :
                    Update_TaskSchedule(task_name, name, parameters, sr[1],
                                        sr[2], answer)
            \/ /\ response'.op = "Cancel"
               /\ Cancel_TaskSchedule(task_name, name, answer)
            \/ /\ response'.op = "Reschedule"
               /\ Reschedule_TaskSchedule(task_name, name, answer))
           => /\ response'.code >= 400
              /\ schedules' = schedules
              /\ store' = store]_vars

\* C17: a Create or an Update whose parameter map lacks a declared
\* parameter fails and changes neither the store nor the rows; a Create or
\* an Update that succeeds with a parameter map hands the store kwargs whose
\* keys are exactly the declared parameters
DeclaredParamsRequired ==
  [][\A task_name \in {"job"}, given \in ParameterMaps,
        name \in 0..Len(schedules), accepted \in BOOLEAN :
       (\/ /\ response'.op = "Create"
           /\ \E sr \in ScheduleRequests :
                Create_TaskSchedule(task_name, <<given>>, sr[1], sr[2],
                                    accepted)
        \/ /\ response'.op = "Update"
           /\ \E sr \in {<<<<>>, <<>>>>}
                        \cup {<<<<r[1]>>, <<r[2]>>>> :
                                r \in ScheduleRequests} :
                Update_TaskSchedule(task_name, name, <<given>>, sr[1], sr[2],
                                    accepted))
       => /\ ~(DeclaredParams \subseteq given) =>
               /\ response'.code >= 400
               /\ schedules' = schedules
               /\ store' = store
          /\ response'.code \in {200, 201} =>
               \A n \in ScheduleNames :
                 store'[n] # store[n] => store'[n].kwargs = DeclaredParams]_vars

(***************************************************************************)
(* The translation of one schedule payload by the three handlers           *)
(***************************************************************************)
\* Create_TaskSchedule translates the payload, lines 82-234
create_translated ==
  /\ translated["Create"] = NotTranslated
  /\ translated' = [translated EXCEPT
                      !["Create"] = create_translation(payload[1], payload[2])]
  /\ UNCHANGED <<payload, engine_vars, sched_vars, stream_vars, params_vars,
                 worker_vars>>

\* Update_TaskSchedule translates the payload, lines 399-433
update_translated ==
  /\ translated["Update"] = NotTranslated
  /\ translated' = [translated EXCEPT
                      !["Update"] = update_translation(payload[1], payload[2])]
  /\ UNCHANGED <<payload, engine_vars, sched_vars, stream_vars, params_vars,
                 worker_vars>>

\* Reschedule_TaskSchedule translates the payload, lines 522-565
reschedule_translated ==
  /\ translated["Reschedule"] = NotTranslated
  /\ translated' = [translated EXCEPT
                      !["Reschedule"] =
                        reschedule_translation(payload[1], payload[2])]
  /\ UNCHANGED <<payload, engine_vars, sched_vars, stream_vars, params_vars,
                 worker_vars>>

TranslateNext ==
  \/ create_translated
  \/ update_translated
  \/ reschedule_translated

\* one payload of a request is handed to the three handlers
PayloadInit ==
  /\ payload \in AllScheduleRequests
  /\ translated = [h \in Handlers |-> NotTranslated]

TranslationInit == graph = LoopStructure /\ EngineInit /\ SchedInit /\ PayloadInit /\ StreamInit /\ WorkersInit /\ ParamsInit

TranslateSpec == TranslationInit /\ [][TranslateNext]_vars

\* the five frequency types and their minutes
FrequencyMinutes(frequency_type) ==
  CASE frequency_type = <<"M", "I", "N", "U", "T", "E", "S">> -> 1
    [] frequency_type = <<"H", "O", "U", "R", "S">> -> 60
    [] frequency_type = <<"D", "A", "Y", "S">> -> 1440
    [] frequency_type = <<"W", "E", "E", "K", "S">> -> 10080
    [] frequency_type = <<"M", "O", "N", "T", "H", "S">> -> 43200
    [] OTHER -> 0

\* the frequency type of a PERIODIC payload, read without regard to case
PayloadFrequencyType ==
  Upper(Get(payload[2].FREQUENCY_TYPE, sMinutes))

\* C18: for a PERIODIC payload the handlers that have translated it agree on
\* what to do and on the interval; when the frequency type is one of the five
\* names in any case the interval handed to the store is FREQUENCY times 1,
\* 60, 1440, 10080 or 43200; when it is none of them, with or without the
\* tolerated blanks, trailing s and parentheses, no handler writes the store
SameInterval ==
  payload[1] = "PERIODIC" =>
    \A h \in Handlers :
      translated[h] # NotTranslated =>
        /\ \A g \in Handlers :
             translated[g] # NotTranslated => translated[g] = translated[h]
        /\ FrequencyMinutes(PayloadFrequencyType) # 0 =>
             /\ translated[h].next = "store"
             /\ translated[h].schedule_minutes =
                  Get(payload[2].FREQUENCY, 1)
                    * FrequencyMinutes(PayloadFrequencyType)
        /\ FrequencyMinutes(frequency_type_of(PayloadFrequencyType)) = 0 =>
             translated[h].next # "store"

(***************************************************************************)
(* Execution stream (src/api/workflow/executions.py, stream_execution)     *)
(***************************************************************************)
\* max_consecutive_errors, line 99
max_consecutive_errors == 5

\* one SSE message: id 0 stands for a message without an id line; step is
\* the id of the Step row of a step event and status the status it carries
Event(event, id, step, status) ==
  [event |-> event, id |-> id, step |-> step, status |-> status]

\* the number of messages of one event type sent so far
Count(sent, event) == Cardinality({i \in DOMAIN sent : sent[i].event = event})

\* last_step_states that never holds a key
last_state_forgotten(states, s_id) == ""

\* last_step_states.get(s_id), "" when s_id is no key
last_state(states, s_id) == IF s_id \in DOMAIN states THEN states[s_id] ELSE ""

\* the loop of lines 127-134 when it sends the new rows only
RECURSIVE step_events_new_only(_, _, _, _)
step_events_new_only(rows, states, counter, i) ==
  IF i > Len(rows) THEN <<>>
  ELSE IF i \notin DOMAIN states
  THEN <<Event("step", counter + 1, i, rows[i].status)>>
       \o step_events_new_only(rows, states, counter + 1, i + 1)
  ELSE step_events_new_only(rows, states, counter, i + 1)

\* lines 127-134: the step events of one poll, for the rows from the i-th on
RECURSIVE step_events(_, _, _, _)
step_events(rows, states, counter, i) ==
  IF i > Len(rows) THEN <<>>
  ELSE IF last_state(states, i) # rows[i].status
  THEN <<Event("step", counter + 1, i, rows[i].status)>>
       \o step_events(rows, states, counter + 1, i + 1)
  ELSE step_events(rows, states, counter, i + 1)

\* the test of line 137 when it looks at COMPLETED only
is_finished_completed_only(status) == status = "COMPLETED"

\* line 137: the Execution is neither RUNNING nor QUEUED
is_finished(status) == status \notin {"RUNNING", "QUEUED"}

\* what generate() never touches
outside_stream ==
  <<engine_vars, sched_vars, translate_vars, params_vars, worker_vars>>

\* the generator ends: the finally of lines 177-178 closes the session
close_stream ==
  /\ stream_pc' = "closed"
  /\ session' = "closed"
  /\ UNCHANGED <<stream_id, connected_at>>

\* stream_execution, lines 93-101: the request is accepted and generate()
\* starts
connect(execution_id) ==
  /\ stream_pc = "none"
  /\ stream_pc' = "top"
  /\ stream_id' = execution_id
  /\ current_status' = ""
  /\ last_step_states' = <<>>
  /\ event_counter' = 0
  /\ consecutive_errors' = 0
  /\ slept' = FALSE
  /\ hour_passed' = FALSE
  /\ session' = "open"
  /\ events' = <<>>
  /\ connected_at' = Len(steps)
  /\ UNCHANGED outside_stream

\* the test of line 106 when it never holds
timed_out_never(passed) == FALSE

\* line 106: elapsed > max_wait_seconds
timed_out(passed) == passed

\* time passes: more than an hour has passed since generate() started
hour_passes ==
  /\ stream_pc \in {"top", "read"}
  /\ ~hour_passed
  /\ hour_passed' = TRUE
  /\ UNCHANGED <<stream_pc, stream_id, current_status, last_step_states,
                 event_counter, consecutive_errors, slept, session, events,
                 connected_at>>
  /\ UNCHANGED outside_stream

\* lines 104-107: the hour has passed at the head of the loop
stream_timeout ==
  /\ stream_pc = "top"
  /\ timed_out(hour_passed)
  /\ events' = Append(events, Event("timeout", 0, 0, ""))
  /\ close_stream
  /\ UNCHANGED <<current_status, last_step_states, event_counter,
                 consecutive_errors, slept>>
  /\ UNCHANGED <<outside_stream, hour_passed>>

\* lines 112-117: the Execution row is read
poll_execution ==
  /\ stream_pc = "top"
  /\ ~timed_out(hour_passed)
  /\ IF execution.id = 0 \/ execution.id # stream_id
     THEN /\ events' = Append(events, Event("error", 0, 0, "Execution not found"))
          /\ close_stream
          /\ UNCHANGED current_status
     ELSE /\ current_status' = execution.execution_status
          /\ stream_pc' = "read"
          /\ UNCHANGED <<events, stream_id, connected_at, session>>
  /\ UNCHANGED <<last_step_states, event_counter, consecutive_errors, slept>>
  /\ UNCHANGED <<outside_stream, hour_passed>>

\* lines 119-146 and 160-166: the Step rows are read, the new and the changed
\* ones are sent, then complete or, when five seconds have passed since the
\* last one, a heartbeat; the generator sleeps unless it has ended
poll_steps ==
  /\ stream_pc = "read"
  /\ \E heartbeat \in BOOLEAN :
       LET sent == step_events(steps, last_step_states, event_counter, 1)
           counter == event_counter + Len(sent)
       IN /\ heartbeat =>
               /\ slept
               /\ ~is_finished(current_status)
               /\ Count(events, "heartbeat") < MaxHeartbeats
          /\ last_step_states' = [i \in 1..Len(steps) |-> steps[i].status]
          /\ consecutive_errors' = 0
          /\ IF is_finished(current_status)
             THEN /\ events' = events \o sent
                        \o <<Event("complete", counter + 1, 0, current_status)>>
                  /\ event_counter' = counter + 1
                  /\ close_stream
                  /\ UNCHANGED slept
             ELSE /\ events' = events \o sent
                        \o IF heartbeat
                           THEN <<Event("heartbeat", counter + 1, 0,
                                        current_status)>>
                           ELSE <<>>
                  /\ event_counter' = IF heartbeat THEN counter + 1 ELSE counter
                  /\ stream_pc' = "top"
                  /\ slept' = TRUE
                  /\ UNCHANGED <<stream_id, connected_at, session>>
  /\ UNCHANGED current_status
  /\ UNCHANGED <<outside_stream, hour_passed>>

\* the test of line 154 when one failure is enough
too_many_at_once(n) == n >= 1

\* line 154
too_many(n) == n >= max_consecutive_errors

\* lines 148-158: one of the two queries raises
read_error ==
  /\ stream_pc = "read" \/ (stream_pc = "top" /\ ~timed_out(hour_passed))
  /\ consecutive_errors' = consecutive_errors + 1
  /\ IF too_many(consecutive_errors + 1)
     THEN /\ events' = events \o <<Event("error", 0, 0, "Stream error"),
                                   Event("error", 0, 0, "Too many consecutive errors, closing stream")>>
          /\ close_stream
          /\ UNCHANGED slept
     ELSE /\ events' = Append(events, Event("error", 0, 0, "Stream error"))
          /\ stream_pc' = "top"
          /\ slept' = TRUE
          /\ UNCHANGED <<stream_id, connected_at, session>>
  /\ UNCHANGED <<current_status, last_step_states, event_counter>>
  /\ UNCHANGED <<outside_stream, hour_passed>>

\* the database fails during one period of a connection, which lasts for any
\* number of polls
stream_error ==
  /\ consecutive_errors > 0 \/ Count(events, "error") = 0
  /\ read_error

\* lines 168-169: the client goes away and the generator is closed
disconnect ==
  /\ stream_pc \in {"top", "read"}
  /\ close_stream
  /\ UNCHANGED <<current_status, last_step_states, event_counter,
                 consecutive_errors, slept, events>>
  /\ UNCHANGED <<outside_stream, hour_passed>>

\* a client opens the stream of the Execution, which may not exist yet
stream_request == connect(1)

\* the run request and its worker, as run_workflow starts them
stream_run == initialize_execution(1, EmptyMap)

stream_worker == calls = 0 /\ execute_from_id(1, NoStructure)

StreamNext ==
  \/ stream_run
  \/ stream_worker
  \/ begin_step
  \/ run_step
  \/ after_step
  \/ success
  \/ stream_request
  \/ hour_passes
  \/ stream_timeout
  \/ poll_execution
  \/ poll_steps
  \/ stream_error
  \/ disconnect

\* the workflow the stream is followed on: a Start node and a task that may
\* fail
StreamStructure ==
  [nodes |-> AllNodes, edges |-> <<Flow("S", "B"), Flow("B", "Z")>>]

StreamInit0 == graph = StreamStructure /\ Init

StreamSpec == StreamInit0 /\ [][StreamNext]_vars

(***************************************************************************)
(* Properties of the execution stream                                      *)
(***************************************************************************)
\* the step events sent so far, as (Step row, status) pairs
Emitted == {<<events[i].step, events[i].status>> :
              i \in {j \in DOMAIN events : events[j].event = "step"}}

\* C19: on a stream that is open and was connected before a Step row was
\* inserted as RUNNING, the status RUNNING of that row is emitted; a row
\* shows one status at a time and the stream sends the status it reads, so
\* once the row has left RUNNING the event must have been sent already
StreamCompleteness ==
  stream_pc \in {"top", "read"} =>
    \A i \in DOMAIN steps :
      (i > connected_at /\ steps[i].status # "RUNNING")
        => <<i, "RUNNING">> \in Emitted

\* C20 as stated: a connection that has ended has sent complete exactly once
CompleteOnEveryConnection ==
  stream_pc = "closed" => Count(events, "complete") = 1

\* C20: complete is sent at most once on a connection and nothing is sent
\* after it; the poll that has read the Execution with a status other than
\* RUNNING and QUEUED sends it and ends the connection, and a poll that has
\* read RUNNING or QUEUED does not send it
CompleteOnceAndLast ==
  [][/\ Count(events', "complete") <= 1
     /\ Count(events, "complete") = 1 => events' = events
     /\ poll_steps =>
          IF current_status \notin {"RUNNING", "QUEUED"}
          THEN /\ Count(events, "complete") = 0
               /\ events'[Len(events')].event = "complete"
               /\ events'[Len(events')].status = current_status
               /\ stream_pc' = "closed"
          ELSE /\ Count(events', "complete") = 0
               /\ stream_pc' = "top"]_vars

\* a connection has sent step events and then complete, and has ended
CompleteOnceAndLastWitness ==
  /\ stream_pc = "closed"
  /\ Len(events) > 1
  /\ events[Len(events)].event = "complete"
  /\ events[1].event = "step"

\* C21: every event sent on a connection carries an id (an id line is
\* written, which the model records as an id other than 0), and the ids
\* increase strictly in the order the events are sent
EventIds ==
  /\ \A i \in DOMAIN events : events[i].id # 0
  /\ \A i, j \in DOMAIN events : i < j => events[i].id < events[j].id

\* the statuses of a finalized Step row
Finalized == {"completed", "failed", "passed", "skipped"}

\* the indexes of the step events sent for one Step row
StepEventsOf(s_id) ==
  {i \in DOMAIN events : events[i].event = "step" /\ events[i].step = s_id}

\* C22: two successive step events of one connection for the same step id
\* carry different statuses (a step event is sent only for a step that is
\* new or whose status has changed), and after a step event with a finalized
\* status no later step event for that step carries RUNNING
NoRepeatNoDowngrade ==
  \A i, j \in DOMAIN events :
    (i < j /\ events[i].event = "step" /\ j \in StepEventsOf(events[i].step))
      => /\ (\A k \in StepEventsOf(events[i].step) : ~(i < k /\ k < j))
              => events[i].status # events[j].status
         /\ events[i].status \in Finalized => events[j].status # "RUNNING"

\* a step has been sent as RUNNING and later with its finalized status, and
\* later polls have sent other events, the last of them a heartbeat
NoRepeatNoDowngradeWitness ==
  /\ stream_pc = "top"
  /\ \E i, j \in DOMAIN events :
       /\ i < j
       /\ events[i].event = "step" /\ events[i].status = "RUNNING"
       /\ j \in StepEventsOf(events[i].step)
       /\ events[j].status \in Finalized
       /\ events[Len(events)].event = "heartbeat"
       /\ j < Len(events) - 1

(***************************************************************************)
(* The stream of an Execution that stays RUNNING                           *)
(***************************************************************************)
\* polls fail at any time
read_errors ==
  /\ Count(events, "error") < MaxErrors
  /\ read_error

\* the Execution is created and no worker takes it up
WaitingNext ==
  \/ stream_run
  \/ stream_request
  \/ hour_passes
  \/ stream_timeout
  \/ poll_execution
  \/ poll_steps
  \/ read_errors
  \/ disconnect

WaitingSpec == StreamInit0 /\ [][WaitingNext]_vars

\* generate() runs on: its queries return and its sleeps end, and time passes
FairWaitingSpec ==
  /\ WaitingSpec
  /\ WF_vars(hour_passes) /\ WF_vars(stream_timeout)
  /\ WF_vars(poll_execution) /\ WF_vars(poll_steps)

\* the message of the error event that ends a connection after read errors
TooManyErrors == "Too many consecutive errors, closing stream"

\* C23: a failed poll sends an error event and adds one to the counter, a
\* poll whose reads succeed sets the counter to zero, and the connection is
\* closed with the too-many-errors event exactly by the failed poll that
\* brings the counter to five
FiveConsecutiveErrors ==
  [][/\ read_error =>
          /\ consecutive_errors' = consecutive_errors + 1
          /\ Len(events') > Len(events)
          /\ events'[Len(events) + 1] = Event("error", 0, 0, "Stream error")
          /\ (stream_pc' = "closed") <=> (consecutive_errors' = 5)
          /\ stream_pc' # "closed" => stream_pc' = "top"
     /\ poll_steps => consecutive_errors' = 0
     /\ (Count(events', "error") > Count(events, "error")
         /\ events'[Len(events')].status = TooManyErrors)
          <=> (read_error /\ consecutive_errors = 4)]_vars

\* four polls have failed, a poll has succeeded and polls have failed again:
\* the connection is open with nine error events and a counter under five
FiveConsecutiveErrorsWitness ==
  /\ stream_pc = "top"
  /\ Count(events, "error") >= 8
  /\ consecutive_errors = 4

\* C24: a connection that is open is eventually closed, also when its
\* Execution stays RUNNING; once the hour has passed, the generator at the
\* head of its loop does nothing but send timeout and end, without reading
\* the Execution again; and whenever the generator has ended, on whatever
\* path, its session is closed
StreamCloses ==
  /\ (stream_pc \in {"top", "read"}) ~> (stream_pc = "closed")
  /\ [][(stream_pc = "top" /\ hour_passed /\ stream_vars' # stream_vars)
          => /\ stream_pc' = "closed"
             /\ current_status' = current_status
             /\ \/ events' = Append(events, Event("timeout", 0, 0, ""))
                \/ events' = events]_vars
  /\ [](stream_pc = "closed" => session = "closed")
  /\ [](stream_pc \in {"top", "read"} => session = "open")

\* a connection whose Execution is RUNNING has been closed by the timeout,
\* and its session is closed
StreamClosesWitness ==
  /\ stream_pc = "closed"
  /\ execution.execution_status = "RUNNING"
  /\ events # <<>>
  /\ events[Len(events)].event = "timeout"
  /\ session = "closed"

(***************************************************************************)
(* Required-parameter analysis (src/api/workflow/workflow.py,              *)
(* get_required_params, and src/workflow_engine/introspection.py)          *)
(***************************************************************************)
\* parameter and output names
kId == <<"i", "d">>
kID == <<"I", "D">>
kTok == <<"t", "o", "k">>
kTokCap == <<"T", "o", "k">>
kOut == <<"o", "u", "t">>

\* batch_db_defined_inputs: the DefAsyncTaskParam rows of a task
db_params_map(task_name) ==
  CASE task_name = "fetch" -> <<kId, kId>>
    [] OTHER -> <<>>

\* introspect_inputs of the script of a task
introspect_inputs(task_name) ==
  CASE task_name = "fetch" -> <<kOut>>
    [] task_name = "send" -> <<kTok, kID, kOut>>
    [] OTHER -> <<>>

\* introspect_outputs of the script of a task
introspect_outputs(task_name) ==
  CASE task_name = "fetch" -> <<kTokCap>>
    [] task_name = "send" -> <<kOut>>
    [] task_name = "noop" -> <<kID>>
    [] OTHER -> <<>>

\* a node of the request: data.type, data.step_function, data.label and the
\* names of data.attributes
AnalysisNode(id, type, task_name, label, provided) ==
  [id |-> id, type |-> type, task_name |-> task_name, label |-> label,
   provided |-> provided]

AnalysisEdge(source, target) == [source |-> source, target |-> target]

\* the nodes of the requests: node 2 and node 3 with or without a pre-bound
\* attribute
AnalysisNodes(bound2, bound3) ==
  <<AnalysisNode("1", "Start", "", "Start", <<>>),
    AnalysisNode("2", "Task", "fetch", "Fetch", bound2),
    AnalysisNode("3", "Task", "send", "", bound3),
    AnalysisNode("4", "Task", "fetch", "Again", <<>>),
    AnalysisNode("5", "Task", "noop", "Noop", <<>>)>>

\* the edges a request may carry; "9" is the id of no node
AnalysisEdgeMenu ==
  <<AnalysisEdge("1", "2"), AnalysisEdge("2", "5"), AnalysisEdge("5", "3"),
    AnalysisEdge("3", "2"), AnalysisEdge("5", "4"), AnalysisEdge("9", "3")>>

\* the elements of menu whose index is in S, in the order of menu
RECURSIVE Pick(_, _, _)
Pick(menu, S, i) ==
  IF i > Len(menu) THEN <<>>
  ELSE (IF i \in S THEN <<menu[i]>> ELSE <<>>) \o Pick(menu, S, i + 1)

AnalysisRequests ==
  {[nodes |-> AnalysisNodes(b2, b3), edges |-> Pick(AnalysisEdgeMenu, S, 1)] :
     b2 \in {<<>>, <<kID>>}, b3 \in {<<>>, <<kTok>>},
     S \in SUBSET (1..Len(AnalysisEdgeMenu))}
  \cup {[nodes |-> <<>>, edges |-> <<>>]}

\* the elements of a list
Elems(list) == {list[i] : i \in DOMAIN list}

\* build_predecessors, introspection.py lines 107-115
preds_of(nodes, edges, node_id) ==
  LET into == SelectSeq(edges, LAMBDA e : e.source # "" /\ e.target # ""
                                          /\ e.target = node_id)
  IN IF node_id \in {nodes[i].id : i \in DOMAIN nodes}
     THEN [i \in DOMAIN into |-> into[i].source]
     ELSE <<>>

\* _get_inputs, lines 243-255
get_inputs(task_name) ==
  IF db_params_map(task_name) # <<>> THEN db_params_map(task_name)
  ELSE introspect_inputs(task_name)

\* whether lines 281 and 301 skip the node
skipped_node(n) == n.type \in {"Start", "Stop"} \/ n.task_name = ""

\* node_outputs, lines 273-283; [] for an id that is no node
node_outputs(nodes, node_id) ==
  LET found == SelectSeq(nodes, LAMBDA n : n.id = node_id)
  IN IF found = <<>> \/ skipped_node(found[Len(found)]) THEN <<>>
     ELSE introspect_outputs(found[Len(found)].task_name)

\* pred_output_keys that looks at the direct predecessors only
RECURSIVE pred_output_keys_direct(_, _, _, _)
pred_output_keys_direct(nodes, edges, stack, visited) ==
  UNION {{Upper(k) : k \in Elems(node_outputs(nodes, p))} : p \in Elems(stack)}

\* lines 310-320: the output keys of every ancestor, in upper case; the
\* stack is popped at its end
RECURSIVE pred_output_keys(_, _, _, _)
pred_output_keys(nodes, edges, stack, visited) ==
  IF stack = <<>>
  THEN UNION {{Upper(k) : k \in Elems(node_outputs(nodes, p))} : p \in visited}
  ELSE LET pred_id == stack[Len(stack)]
           rest == SubSeq(stack, 1, Len(stack) - 1)
       IN IF pred_id \in visited
          THEN pred_output_keys(nodes, edges, rest, visited)
          ELSE pred_output_keys(nodes, edges,
                                rest \o preds_of(nodes, edges, pred_id),
                                visited \cup {pred_id})

\* lines 325-334: the keys of provided_dict
provided_dict(n) == {Upper(k) : k \in Elems(n.provided)}

WorkflowInput(name, source_task, source_label) ==
  [name |-> name, source_task |-> source_task, source_label |-> source_label]

\* lines 337-356: the parameters of one node, from the i-th on
RECURSIVE node_inputs(_, _, _, _, _, _)
node_inputs(nodes, edges, n, defined, i, workflow_inputs) ==
  IF i > Len(defined) THEN workflow_inputs
  ELSE LET param == defined[i]
           seen_inputs == {workflow_inputs[j].name : j \in DOMAIN workflow_inputs}
       IN IF \/ Upper(param) \in provided_dict(n)
             \/ Upper(param) \in pred_output_keys(nodes, edges,
                                   preds_of(nodes, edges, n.id), {})
             \/ param \in seen_inputs
          THEN node_inputs(nodes, edges, n, defined, i + 1, workflow_inputs)
          ELSE node_inputs(nodes, edges, n, defined, i + 1,
                 Append(workflow_inputs,
                        WorkflowInput(param, n.task_name,
                          IF n.label # "" THEN n.label ELSE n.task_name)))

\* lines 290-356: the loop over the nodes, from the i-th on
RECURSIVE collect_inputs(_, _, _, _)
collect_inputs(nodes, edges, i, workflow_inputs) ==
  IF i > Len(nodes) THEN workflow_inputs
  ELSE IF skipped_node(nodes[i]) \/ get_inputs(nodes[i].task_name) = <<>>
  THEN collect_inputs(nodes, edges, i + 1, workflow_inputs)
  ELSE collect_inputs(nodes, edges, i + 1,
         node_inputs(nodes, edges, nodes[i],
                     get_inputs(nodes[i].task_name), 1, workflow_inputs))

\* get_required_params: the request is answered
get_required_params ==
  /\ required = NoAnalysis
  /\ required' =
       IF analysis.nodes = <<>>
       THEN [code |-> 400, workflow_inputs |-> <<>>]
       ELSE [code |-> 200,
             workflow_inputs |->
               collect_inputs(analysis.nodes, analysis.edges, 1, <<>>)]
  /\ UNCHANGED <<analysis, engine_vars, sched_vars, translate_vars,
                 stream_vars, worker_vars>>

ParamsNext == get_required_params

\* a client sends a graph
AnalysisInit ==
  /\ analysis \in AnalysisRequests
  /\ required = NoAnalysis

RequiredParamsInit == graph = LoopStructure /\ EngineInit /\ SchedInit /\ TranslateInit /\ StreamInit /\ WorkersInit /\ AnalysisInit

ParamsSpec == RequiredParamsInit /\ [][ParamsNext]_vars

\* the ids of the nodes from which a path of edges leads to the node
RECURSIVE AncestorsWithin(_, _)
AncestorsWithin(S, k) ==
  IF k = 0 THEN S
  ELSE AncestorsWithin(
         S \cup {e.source : e \in {x \in Elems(analysis.edges) : x.target \in S}},
         k - 1)

Ancestors(node_id) ==
  {e.source : e \in {x \in Elems(analysis.edges) : x.target = node_id}}
  \cup AncestorsWithin(
         {e.source : e \in {x \in Elems(analysis.edges) : x.target = node_id}},
         Len(analysis.edges))

\* the output keys of the ancestors of a node that are task nodes
AncestorOutputs(node_id) ==
  UNION {{Upper(k) : k \in Elems(introspect_outputs(analysis.nodes[i].task_name))} :
           i \in {j \in DOMAIN analysis.nodes :
                    /\ analysis.nodes[j].id \in Ancestors(node_id)
                    /\ analysis.nodes[j].type \notin {"Start", "Stop"}}}

\* the declared inputs of a task
Declared(task_name) ==
  IF db_params_map(task_name) # <<>> THEN Elems(db_params_map(task_name))
  ELSE Elems(introspect_inputs(task_name))

\* the i-th node is a task node that needs the parameter from the user
Needs(i, param) ==
  LET n == analysis.nodes[i]
  IN /\ n.type \notin {"Start", "Stop"} /\ n.task_name # ""
     /\ param \in Declared(n.task_name)
     /\ Upper(param) \notin AncestorOutputs(n.id)
     /\ Upper(param) \notin {Upper(k) : k \in Elems(n.provided)}

\* C25: the analysis of a graph with nodes lists exactly the declared inputs
\* of task nodes that are neither an output key of an ancestor nor pre-bound
\* on the node, names compared without regard to case; each name is listed
\* once, with the task and the label of the first node, in the order of the
\* nodes, that needs it
RequiredParamsExact ==
  required.code = 200 =>
    LET listed == required.workflow_inputs
    IN /\ {listed[j].name : j \in DOMAIN listed}
            = {p \in {kId, kID, kTok, kTokCap, kOut} :
                 \E i \in DOMAIN analysis.nodes : Needs(i, p)}
       /\ \A j, k \in DOMAIN listed : listed[j].name = listed[k].name => j = k
       /\ \A j \in DOMAIN listed :
            LET first == CHOOSE i \in DOMAIN analysis.nodes :
                           /\ Needs(i, listed[j].name)
                           /\ \A h \in DOMAIN analysis.nodes :
                                Needs(h, listed[j].name) => i <= h
                n == analysis.nodes[first]
            IN /\ listed[j].source_task = n.task_name
               /\ listed[j].source_label =
                    IF n.label # "" THEN n.label ELSE n.task_name

\* a graph has been analysed in which an input is satisfied by the output of
\* an ancestor that is no direct predecessor, under a name of another case,
\* and another input is listed for the first of two nodes that need it
RequiredParamsExactWitness ==
  /\ required.code = 200
  /\ Len(required.workflow_inputs) >= 2
  /\ \E i \in DOMAIN analysis.nodes :
       /\ analysis.nodes[i].task_name = "send"
       /\ ~Needs(i, kTok)
       /\ analysis.nodes[i].provided = <<>>
       /\ "2" \notin Elems(preds_of(analysis.nodes, analysis.edges, "3"))
  /\ \E j \in DOMAIN required.workflow_inputs :
       /\ required.workflow_inputs[j].name = kOut
       /\ required.workflow_inputs[j].source_label = "send"

(***************************************************************************)
(* Structural problems met during a run                                    *)
(***************************************************************************)
\* the Execution is FAILED and carries a message
FailedWithMessage ==
  /\ execution.execution_status = "FAILED"
  /\ execution.error_message # None

\* the call under way found a structure without a Start node
NoStartMet ==
  /\ pc = "idle"
  /\ exit \in {"returned", "raised"}
  /\ structure # NoStructure
  /\ find_start(structure) = NoNode

\* the last call has ended after the visit of a node whose step did not fail
\* and whose outgoing edges, of which there is one at least, all name a
\* target that is no node of the graph
MissingTargetMet ==
  /\ pc = "idle"
  /\ exit \in {"returned", "raised"}
  /\ hist # <<>>
  /\ hist[Len(hist)].call = calls
  /\ steps[Len(hist)].status \in {"completed", "passed"}
  /\ ~is_stop(LastVisited)
  /\ Outgoing(LastVisited) # <<>>
  /\ DeadEnd(LastVisited)

\* C26: a run that meets a structural problem ends with the Execution FAILED
\* and a message: this holds for a structure without a Start node and for a
\* node, gateway or not, whose outgoing edge names a target that is no node
\* of the graph.  The engine violates it: the default linear flow skips an
\* edge whose target is missing, and the run ends COMPLETED.
StructuralProblemFails ==
  (NoStartMet \/ MissingTargetMet) => FailedWithMessage

(***************************************************************************)
(* validate and run_dynamic                                                *)
(***************************************************************************)
nStart2 == Node("S2", "Start", "", <<>>)

\* the structures a run_dynamic request carries: without a Start node, with
\* one, and with two
DynamicStructures ==
  {[nodes |-> NodesWithoutStart,
    edges |-> <<Flow("A", "B"), Flow("B", "E")>>],
   [nodes |-> <<nStart, nA, nB, nStop>>,
    edges |-> <<Flow("S", "A"), Flow("A", "B"), Flow("B", "E")>>],
   [nodes |-> <<nStart, nStart2, nA, nB, nStop>>,
    edges |-> <<Flow("S", "A"), Flow("S2", "B"), Flow("A", "E"),
                Flow("B", "E")>>],
   [nodes |-> <<nA, nStart2, nStart, nStop>>,
    edges |-> <<Flow("S", "E"), Flow("S2", "A"), Flow("A", "E")>>]}

\* validate: the list of errors; _parse raises for none of the structures
validate(process_structure) ==
  IF find_start(process_structure) = NoNode
  THEN <<"No Start node found">>
  ELSE <<>>

\* run_adhoc_workflow: validate, answer 400 on errors, else create the
\* Execution without a process, start the thread and answer 202
run_dynamic ==
  /\ dynamic_status = 0
  /\ IF validate(dynamic) # <<>>
     THEN /\ dynamic_status' = 400
          /\ UNCHANGED engine_vars
     ELSE /\ \E input \in InputContexts :
               engine_initialize_execution(0, input)
          /\ dynamic_status' = 202
  /\ UNCHANGED <<workers, dynamic>>
  /\ UNCHANGED <<sched_vars, translate_vars, stream_vars, params_vars>>

\* background_run: the thread calls execute_from_id with the structure of
\* the request
background_run ==
  /\ dynamic_status = 202
  /\ calls = 0
  /\ execute_from_id(execution.id, dynamic)

DynamicNext ==
  \/ run_dynamic
  \/ background_run
  \/ begin_step
  \/ run_step
  \/ after_step
  \/ success

DynamicInit == graph = LoopStructure /\ EngineInit /\ SchedInit /\ TranslateInit /\ StreamInit /\ ParamsInit /\ WorkersIdle /\ dynamic \in DynamicStructures /\ dynamic_status = 0

DynamicSpec == DynamicInit /\ [][DynamicNext]_vars

\* the number of Start nodes of a structure
StartNodes(process_structure) ==
  Cardinality({i \in 1..Len(process_structure.nodes) :
                 process_structure.nodes[i].type = "Start"})

\* C27: the engine executes steps only on a structure with exactly one Start
\* node: for a structure with no Start node or with more than one, validate
\* returns errors and run_dynamic creates no Execution.  The engine violates
\* it: _find_start takes the first Start node it meets, so a structure with
\* two Start nodes is accepted and run.
ExactlyOneStart ==
  /\ steps # <<>> => StartNodes(structure) = 1
  /\ StartNodes(dynamic) # 1 =>
       /\ validate(dynamic) # <<>>
       /\ execution.id = 0

(***************************************************************************)
(* A Cancel and a Reschedule request for the same schedule, each on a      *)
(* worker of its own: a worker takes one step per query, commit or store   *)
(* call                                                                    *)
(***************************************************************************)
\* the schedule both requests name
shared_task == "job"

\* its redbeat_schedule_name: the first name the scheduler hands out
shared_name == Min(ScheduleNames)

\* what the workers leave alone
outside_workers ==
  <<task, adhoc, response, requests, dynamic, dynamic_status, engine_vars,
    translate_vars, stream_vars, params_vars>>

\* a worker moves to a position
worker_at(w, position) == workers' = [workers EXCEPT ![w] = position]

\* both requests arrive once the schedule exists
workers_ready == FindSchedule(shared_task, shared_name) # 0

\* Cancel, line 470: the row is loaded, whatever its cancelled_yn
cancel_find ==
  /\ workers_ready
  /\ workers["Cancel"] = "idle"
  /\ worker_at("Cancel", "found")
  /\ UNCHANGED <<schedules, store, outside_workers>>

\* Cancel, lines 480-483: cancelled_yn = 'Y' is committed
cancel_commit ==
  /\ workers["Cancel"] = "found"
  /\ schedules' =
       [schedules EXCEPT
          ![FindSchedule(shared_task, shared_name)].cancelled_yn = "Y"]
  /\ worker_at("Cancel", "committed")
  /\ UNCHANGED <<store, outside_workers>>

\* Cancel, lines 486-495: the entry is deleted from the store, or the store
\* fails and the rollback finds nothing to undo
cancel_delete ==
  /\ workers["Cancel"] = "committed"
  /\ \E deleted \in BOOLEAN :
       IF deleted
       THEN /\ store' = store_delete(shared_name)
            /\ worker_at("Cancel", "200")
       ELSE /\ worker_at("Cancel", "500")
            /\ UNCHANGED store
  /\ UNCHANGED <<schedules, outside_workers>>

\* Reschedule, lines 520-566: the cancelled row is looked up and its
\* schedule translated
reschedule_find ==
  /\ workers_ready
  /\ workers["Reschedule"] = "idle"
  /\ LET i == FindCancelled(shared_task, shared_name)
         tr == reschedule_translation(schedules[i].schedule_type,
                                      schedules[i].schedule)
     IN IF i = 0 THEN worker_at("Reschedule", "404")
        ELSE IF tr.next = "400" THEN worker_at("Reschedule", "400")
        ELSE IF tr.next = "raise" THEN worker_at("Reschedule", "500")
        ELSE worker_at("Reschedule", "found")
  /\ UNCHANGED <<schedules, store, outside_workers>>

\* Reschedule, lines 572-580: the entry is written from the row
reschedule_write(i, tr) ==
  store_write(shared_name,
    Entry(ExecutorOf(shared_task), tr.schedule_minutes, tr.cron_schedule,
          schedules[i].args, schedules[i].kwargs))

\* Reschedule, lines 568-585: the store accepts the entry or fails
reschedule_store ==
  /\ workers["Reschedule"] = "found"
  /\ LET i == FindSchedule(shared_task, shared_name)
         tr == reschedule_translation(schedules[i].schedule_type,
                                      schedules[i].schedule)
     IN \E accepted \in BOOLEAN :
          IF accepted
          THEN /\ store' = reschedule_write(i, tr)
               /\ worker_at("Reschedule", "written")
          ELSE /\ worker_at("Reschedule", "500")
               /\ UNCHANGED store
  /\ UNCHANGED <<schedules, outside_workers>>

\* Reschedule, lines 587-593: cancelled_yn = 'N' is committed
reschedule_commit ==
  /\ workers["Reschedule"] = "written"
  /\ schedules' =
       [schedules EXCEPT
          ![FindSchedule(shared_task, shared_name)].cancelled_yn = "N"]
  /\ worker_at("Reschedule", "200")
  /\ UNCHANGED <<store, outside_workers>>

\* the schedule is created before the two requests arrive
schedule_created ==
  /\ WorkersIdle
  /\ schedules = <<>>
  /\ create_request

ConcurrentNext ==
  \/ schedule_created
  \/ cancel_find
  \/ cancel_commit
  \/ cancel_delete
  \/ reschedule_find
  \/ reschedule_store
  \/ reschedule_commit

ConcurrentSpec == SchedulerInit /\ [][ConcurrentNext]_vars

\* both requests have been answered, and answered 200
BothSucceeded == \A w \in {"Cancel", "Reschedule"} : workers[w] = "200"

\* C28: after a Cancel and a Reschedule for the same schedule that ran at
\* the same time have both finished, the row has cancelled_yn = 'N' exactly
\* when the store holds an entry under its name.  The handlers violate it:
\* neither holds a lock from its commit to its store call, so the commit of
\* one can fall between the store call and the commit of the other.
CoherentAfterBoth ==
  BothSucceeded =>
    (RowOf(shared_task, shared_name).cancelled_yn = "N"
       <=> store[shared_name].live)

(***************************************************************************)
(* The stream and the engine worker                                        *)
(***************************************************************************)
\* the connection has ended with complete
EndedWithComplete ==
  /\ stream_pc = "closed"
  /\ events # <<>>
  /\ events[Len(events)].event = "complete"

\* C29: on a connection that has ended with complete, each Step row of the
\* Execution has a step event, and the last one carries the status the row
\* has from then on: the engine commits the final status of a step before
\* the terminal status of the Execution, and a poll reads the Execution
\* before the steps
LastStepEventFinal ==
  EndedWithComplete =>
    \A i \in 1..Len(steps) :
      /\ StepEventsOf(i) # {}
      /\ events[Max(StepEventsOf(i))].status = steps[i].status

\* C29 happens: the connection has ended with complete after a poll that
\* read the Execution as RUNNING and then found a step finalized that it had
\* sent as RUNNING
LastStepEventFinalWitness ==
  /\ EndedWithComplete
  /\ \E i \in 1..Len(steps), j, k \in DOMAIN events :
       /\ j \in StepEventsOf(i) /\ events[j].status = "RUNNING"
       /\ k = Max(StepEventsOf(i)) /\ events[k].status \in Finalized
       /\ \E h \in DOMAIN events :
            k < h /\ h < Len(events) /\ events[h].event = "heartbeat"

(***************************************************************************)
(* The recurring store and the Schedule rows                               *)
(***************************************************************************)
\* C30: after any sequence of completed Create, Update, Cancel and
\* Reschedule requests, every live entry of the recurring store has a
\* Schedule row with the same redbeat_schedule_name and cancelled_yn = 'N'.
\* The handlers violate it: a Cancel whose store deletion fails has already
\* committed cancelled_yn = 'Y' and leaves the entry live.
LiveEntryHasActiveRow ==
  \A name \in ScheduleNames :
    store[name].live =>
      \E i \in 1..Len(schedules) :
        /\ schedules[i].redbeat_schedule_name = name
        /\ schedules[i].cancelled_yn = "N"
====
